---- MODULE Spec2Model ----
(***************************************************************************)
(* Model of the concurrency substrate of src/lib/world/worldthread.h:      *)
(* Mutex (pthread and atomic-counter variants), MutexReaderWriter,         *)
(* ConditionVariable, MutexFair, DQueue and ThreadPool.                    *)
(*                                                                         *)
(* Each component has its own specification (SpecMutex, SpecRW, SpecCV,    *)
(* SpecFair, SpecPool, FairSpecPool, and for the DQueue: SpecDQ and        *)
(* SpecDQCalls for one thread, SpecDQC for several, SpecScript for a fixed *)
(* sequence of calls, SpecGrow for the capacity under repeated growth).    *)
(* A specification moves only the variables of its component; the others   *)
(* stay at their constructed values.  Code that runs between lock() and   *)
(* unlock() of one mutex is one atomic action: no other thread can observe *)
(* or change the protected fields in between.  Reads and writes done       *)
(* outside the lock (the spin on myturn, the test of finish, the store     *)
(* *p = true) are actions of their own.                                    *)
(***************************************************************************)
EXTENDS Integers, Sequences, FiniteSets, TLC

\* ------------------------------------------------------------------ bounds

\* Number of threads using the basic Mutex.
NMutexThreads == 3

\* Number of threads using the MutexReaderWriter.
NRwThreads == 3

\* Capacity of the ConditionVariable ring (ConditionVariable::MAX_NTHREAD,
\* 64 in the source), scaled down so that the ring wraps and fills.
CV_MAX_NTHREAD == 3

\* Threads using the stand-alone ConditionVariable: CV_MAX_NTHREAD of them
\* can block at once while one more signals.
NCvThreads == 4

\* Cap on pending signals in the stand-alone ConditionVariable.
MaxSig == 3

\* Capacity of the MutexFair ring (MutexFair::MAX_NTHREAD, 64 in the
\* source), scaled down.
MF_MAX_NTHREAD == 3

\* Threads using the MutexFair.
NFairThreads == 4

\* Largest capacity hint given to the DQueue constructor.
MaxHint == 3

\* Values stored in a DQueue<int> are 1..NVals.
NVals == 2

\* Caps on the number of push and pop calls made on one DQueue.
MaxPush == 4

MaxPop == 3

\* Threads using the DQueue concurrently, and the caps on their calls.
NDqThreads == 3

MaxConcPush == 2

MaxConcPop == 3

\* Caps on the push and pop calls of the DQueue whose calls are recorded.
CallMaxPush == 3

CallMaxPop == 2

\* Pool workers (ThreadPool::nthreads), tasks submitted by the main thread
\* and calls of the static run_task() made by the main thread.
NWorkers == 2

MaxTasks == 2

MaxMainRun == 1

\* Capacity hints of the deques that are filled and grown: the hints within
\* GrowRadius of each threshold of the growth rule; each is grown up to
\* MaxGrow times.
GrowRadius == 3

MaxGrow == 4

\* The scripted use of a DQueue: the largest capacity hint, and how many
\* times one element is passed through the deque before the script starts
\* (each pass moves front and back one slot on).
ScriptMaxHint == 6

ScriptMaxRot == 2

\* Longest value of POOL_NTHREAD considered.
MaxEnvLen == 3

\* Largest number of processors sysconf reports.
MaxCpuConf == 3

\* Largest argument of ThreadPool::begin.
MaxCtorArg == 2

\* Largest number of processors of the machine.
MaxNcpu == 3

\* Largest pool thread index passed to set_affinity.
MaxInd == 3

\* Largest position of the first item of a Range.
MaxRangeStart == 1

\* Largest number of items of a Range.
MaxItems == 24

\* Largest chunksize passed to the Range constructor.
MaxChunk == 3

\* Largest number of threads of the pool a Range is made for.
MaxPoolSize == 2

\* Largest number of splits of one Range.
MaxSplits == 3

\* MutexWaiter: nspin (10000000 in the source), the number of calls that nap
\* (1000 in the source) and the width of the unsigned counter (32 in the
\* source), scaled down.
nspin == 4

NapCalls == 3

CountWidth == 7

\* MutexWaiter::wait: const int naptime = 1000.
naptime == 1000

\* Width of the unsigned long TaskAttributes::flags, scaled down.
FlagWidth == 4

\* Largest argument of ThreadPool::begin in the calls of the initial thread.
MaxBeginArg == 3

\* ThreadPool objects followed; the code makes one.
MaxPools == 2

\* ------------------------------------------------------------------ state

VARIABLES
    \* Mutex
    variant,    \* "atomic" (WORLD_MUTEX_ATOMIC) or "pthread": chosen at build time
    flag,       \* Mutex::flag of the atomic variant
    plocked,    \* state of Mutex::mutex of the pthread variant
    mpc,        \* position of each thread using the Mutex
    \* MutexReaderWriter
    rw,         \* [nreader, writeflag]
    rwhold,     \* the lock each thread holds: "none", "read" or "write"
    rwpc,       \* the blocking call each thread is inside, or "idle"
    rwlast,     \* history: the last call or loop iteration that took the spinlock
    \* ConditionVariable (stand-alone, and as base of DQueue)
    cv,         \* [nsig, front, back, q]
    myturn,     \* the local flag `myturn` of each thread inside wait()
    cvpc,       \* position of each thread using the stand-alone CV
    cvpend,     \* history: threads enqueued by wait() and not yet released, in order
    cvop,       \* history: the last operation performed on the stand-alone CV
    \* MutexFair
    mf,         \* [n, front, back, q]
    mflocked,   \* the inherited Mutex of MutexFair is held
    mfturn,     \* the local flag `myturn` of each thread inside lock()
    mfp,        \* the local pointer `p` of each thread inside unlock()
    mfpc,       \* position of each thread using the MutexFair
    mfpend,     \* history: threads enqueued by lock() and not yet granted, in order
    \* DQueue
    dq,         \* [sz, buf, front, back, n, stats]
    model,      \* history: the abstract sequence the deque stands for
    dqres,      \* the pair returned by the last pop (sequential use)
    dpc,        \* position of each thread using the DQueue concurrently
    dres,       \* the pair returned by the last pop of each thread; whether it waited
    dmaxw,      \* history: the most poppers spinning on an unset flag at a push
    \* DQueue used by one thread, with a record of its calls
    dqlast,     \* history: the last call made
    dqprev,     \* history: the call made before that one
    dqblocked,  \* the thread is spinning inside wait()
    \* ThreadPool
    finish,     \* ThreadPool::finish
    nfinished,  \* ThreadPool::nfinished
    wpc,        \* position of each pool thread
    wtask,      \* the task a pool thread holds (t.first)
    mainpc,     \* position of the main thread
    nsent,      \* loop index i of ThreadPool::end
    mainruns,   \* history: calls of the static run_task() by the main thread
    mtask,      \* the task the main thread holds inside run_task() (t.first)
    hp,         \* is_high_priority() of each submitted task
    runs,       \* history: number of times run() was called on each task
    popped,     \* history: the task taken by the last successful pop_front
    npopped,    \* history: number of times pop_front returned each task
    ndeleted,   \* history: number of times each task was deleted
    \* DQueue capacity under repeated growth
    gsz,        \* DQueue::sz of a deque that is kept full
    goldsz,     \* history: the local oldsz of its last grow()
    gngrow,     \* its stats.ngrow
    \* DQueue driven by a fixed script of calls
    spc,        \* number of calls of the script that have returned
    smode,      \* the script ends with four pop_back or four pop_front calls
    swait,      \* the wait argument of those pops
    srot,       \* elements passed through the deque before the script
    sblocked,   \* the thread is spinning inside wait()
    sout,       \* the pairs returned by the pops of the script
    \* ThreadPool construction
    cenv,       \* the value of POOL_NTHREAD in the environment
    cconf,      \* sysconf(_SC_NPROCESSORS_CONF)
    carg,       \* the argument nthread of ThreadPool::begin
    cpc,        \* position of the thread that constructs and ends the pool
    cnthreads,  \* ThreadPool::nthreads
    cstarted,   \* number of pool threads started
    cnfinished, \* ThreadPool::nfinished
    cadded,     \* the loop variable i of end(): PoolTaskNull tasks added
    \* ThreadBase affinity
    ancpu,      \* sysconf(_SC_NPROCESSORS_CONF)
    abind,      \* ThreadBase::bind
    cpulo,      \* ThreadBase::cpulo
    cpuhi,      \* ThreadBase::cpuhi
    apc,        \* whether set_affinity_pattern was called, and how it ended
    abindarg,   \* the bind argument of the set_affinity_pattern call
    acpu,       \* the cpu argument of the set_affinity_pattern call
    amask,      \* the processors the calling thread may run on
    acall,      \* history: the arguments of the last set_affinity call
    \* Range
    rstart,     \* the iterator start passed to the Range constructor
    rlen,       \* the number of items between start and finish
    rchunk,     \* the chunksize argument of the constructor
    rpsize,     \* ThreadPool::size()
    rpc,        \* whether the range is constructed
    rg,         \* the range: n, start, finish, chunksize
    rprev,      \* history: the range before its last split
    rnew,       \* the range made by the last split
    rnsplit,    \* history: number of splits
    \* MutexWaiter
    wcount,     \* MutexWaiter::count
    wcalls,     \* history: calls of wait() since construction or reset()
    wus,        \* history: microseconds the last wait() yielded for, 0 for none
    \* TaskAttributes
    tflags,     \* TaskAttributes::flags
    tctor,      \* how the TaskAttributes was constructed
    tlast,      \* history: the last setter called, its argument, flags before it
    \* ThreadPool singleton
    iconf,      \* sysconf(_SC_NPROCESSORS_CONF)
    iptr,       \* ThreadPool::instance_ptr: 0 or the number of a pool
    ipools,     \* nthreads of each ThreadPool constructed, in order
    ipc,        \* the initial thread: between calls or in the constructor
    ii,         \* the loop index i of the constructor
    ipend,      \* the call that entered the constructor
    ilast,      \* history: the last call that returned, with size() after it
    istarts,    \* history: number of threads started
    iwpc,       \* position of each thread of the pool
    iwsaw,      \* history: the pool instance() gave each thread
    iwearly     \* history: threads that called instance() during the constructor

mutexvars == <<variant, flag, plocked, mpc>>
rwvars    == <<rw, rwhold, rwpc, rwlast>>
cvvars    == <<cv, myturn>>
cvtvars   == <<cvpc, cvpend, cvop>>
fairvars  == <<mf, mflocked, mfturn, mfp, mfpc, mfpend>>
dqvars    == <<dq>>
dqsvars   == <<model, dqres>>
dqcvars   == <<dpc, dres, dmaxw>>
dqhvars   == <<dqlast, dqprev, dqblocked>>
growvars  == <<gsz, goldsz, gngrow>>
scriptvars == <<spc, smode, swait, srot, sblocked, sout>>
poolvars  ==
    <<finish, nfinished, wpc, wtask, mainpc, nsent, mainruns, mtask, hp, runs, popped,
      npopped, ndeleted>>

ctorvars == <<cenv, cconf, carg, cpc, cnthreads, cstarted, cnfinished, cadded>>

affvars == <<ancpu, abind, cpulo, cpuhi, apc, abindarg, acpu, amask, acall>>

rangevars == <<rstart, rlen, rchunk, rpsize, rpc, rg, rprev, rnew, rnsplit>>

waitervars == <<wcount, wcalls, wus>>

attrvars == <<tflags, tctor, tlast>>

instvars == <<iconf, iptr, ipools, ipc, ii, ipend, ilast, istarts, iwpc, iwsaw, iwearly>>

vars == <<mutexvars, cvvars, cvtvars, fairvars, dqvars, dqsvars, dqcvars, poolvars,
         growvars,
         scriptvars,
         dqhvars,
         rwvars,
         ctorvars,
         affvars,
         rangevars,
         waitervars,
         attrvars,
         instvars>>

\* What the actions of one component leave alone: the other components.
MutexFrame == UNCHANGED <<cvvars, cvtvars, fairvars, dqvars, dqsvars, dqcvars, poolvars, growvars, scriptvars, dqhvars, rwvars, ctorvars, affvars, rangevars, waitervars, attrvars, instvars>>
RwFrame    == UNCHANGED <<mutexvars, cvvars, cvtvars, fairvars, dqvars, dqsvars, dqcvars, poolvars, growvars, scriptvars, dqhvars, ctorvars, affvars, rangevars, waitervars, attrvars, instvars>>
CvFrame    == UNCHANGED <<mutexvars, fairvars, dqvars, dqsvars, dqcvars, poolvars, growvars, scriptvars, dqhvars, rwvars, ctorvars, affvars, rangevars, waitervars, attrvars, instvars>>
FairFrame  == UNCHANGED <<mutexvars, cvvars, cvtvars, dqvars, dqsvars, dqcvars, poolvars, growvars, scriptvars, dqhvars, rwvars, ctorvars, affvars, rangevars, waitervars, attrvars, instvars>>
DqFrame    == UNCHANGED <<mutexvars, cvtvars, fairvars, dqcvars, poolvars, growvars, scriptvars, dqhvars, rwvars, ctorvars, affvars, rangevars, waitervars, attrvars, instvars>>
DqcFrame   == UNCHANGED <<mutexvars, cvtvars, fairvars, dqsvars, poolvars, growvars, scriptvars, dqhvars, rwvars, ctorvars, affvars, rangevars, waitervars, attrvars, instvars>>
ScriptFrame == UNCHANGED <<mutexvars, cvtvars, fairvars, dqsvars, dqcvars, poolvars, growvars, dqhvars, rwvars, ctorvars, affvars, rangevars, waitervars, attrvars, instvars>>
GrowFrame  == UNCHANGED <<mutexvars, cvvars, cvtvars, fairvars, dqvars, dqsvars, dqcvars, poolvars, scriptvars, dqhvars, rwvars, ctorvars, affvars, rangevars, waitervars, attrvars, instvars>>
DqCallsFrame == UNCHANGED <<mutexvars, cvtvars, fairvars, dqsvars, dqcvars, poolvars, growvars, scriptvars, rwvars, ctorvars, affvars, rangevars, waitervars, attrvars, instvars>>
PoolFrame  == UNCHANGED <<mutexvars, cvtvars, fairvars, dqsvars, dqcvars, growvars, scriptvars, dqhvars, rwvars, ctorvars, affvars, rangevars, waitervars, attrvars, instvars>>
CtorFrame == UNCHANGED <<mutexvars, cvvars, cvtvars, fairvars, dqvars, dqsvars, dqcvars, poolvars, growvars, scriptvars, dqhvars, rwvars, affvars, rangevars, waitervars, attrvars, instvars>>
AffFrame == UNCHANGED <<mutexvars, cvvars, cvtvars, fairvars, dqvars, dqsvars, dqcvars, poolvars, growvars, scriptvars, dqhvars, rwvars, ctorvars, rangevars, waitervars, attrvars, instvars>>
RangeFrame == UNCHANGED <<mutexvars, cvvars, cvtvars, fairvars, dqvars, dqsvars, dqcvars, poolvars, growvars, scriptvars, dqhvars, rwvars, ctorvars, affvars, waitervars, attrvars, instvars>>
WaiterFrame == UNCHANGED <<mutexvars, cvvars, cvtvars, fairvars, dqvars, dqsvars, dqcvars, poolvars, growvars, scriptvars, dqhvars, rwvars, ctorvars, affvars, rangevars, attrvars, instvars>>
AttrFrame == UNCHANGED <<mutexvars, cvvars, cvtvars, fairvars, dqvars, dqsvars, dqcvars, poolvars, growvars, scriptvars, dqhvars, rwvars, ctorvars, affvars, rangevars, waitervars, instvars>>
InstFrame == UNCHANGED <<mutexvars, cvvars, cvtvars, fairvars, dqvars, dqsvars, dqcvars, poolvars, growvars, scriptvars, dqhvars, rwvars, ctorvars, affvars, rangevars, waitervars, attrvars>>

MutexThreads == 1..NMutexThreads
RwThreads    == 1..NRwThreads
CvThreads    == 1..NCvThreads
FairThreads  == 1..NFairThreads
DqThreads    == 1..NDqThreads
Workers      == 1..NWorkers

\* ================================================================== Mutex

\* Mutex::Mutex(): the atomic variant sets flag to 1, pthread_mutex_init
\* leaves the mutex unlocked.
MutexInit ==
    /\ flag = 1
    /\ plocked = FALSE
    /\ mpc = [t \in MutexThreads |-> "idle"]

\* MADATOMIC_INT_DEC_AND_TEST(&flag): true iff the decremented value is zero.
DecAndTestBroken(f) == f - 1 <= 0

DecAndTest(f) == f - 1 = 0

\* pthread_mutex_trylock(&mutex) == 0: the mutex was free.
PthreadTry(locked) == ~locked

\* Mutex::try_lock() from outside lock().  Atomic variant: the decrement;
\* on failure the increment that undoes it is a later step (MutexUndo).
MutexTryLock(t) ==
    /\ mpc[t] = "idle"
    /\ IF variant = "atomic"
       THEN /\ flag' = flag - 1
            /\ mpc' = [mpc EXCEPT ![t] = IF DecAndTest(flag) THEN "cs" ELSE "undo_try"]
            /\ UNCHANGED plocked
       ELSE /\ plocked' = (plocked \/ PthreadTry(plocked))
            /\ mpc' = [mpc EXCEPT ![t] = IF PthreadTry(plocked) THEN "cs" ELSE "idle"]
            /\ UNCHANGED flag
    /\ UNCHANGED variant
    /\ MutexFrame

\* Mutex::lock() is entered.
MutexLockCall(t) ==
    /\ mpc[t] = "idle"
    /\ mpc' = [mpc EXCEPT ![t] = "locking"]
    /\ UNCHANGED <<variant, flag, plocked>>
    /\ MutexFrame

\* One attempt of Mutex::lock(): an iteration of while (!try_lock()) in the
\* atomic variant, pthread_mutex_lock (which returns once the mutex was
\* free) in the pthread variant.
MutexLockAttempt(t) ==
    /\ mpc[t] = "locking"
    /\ IF variant = "atomic"
       THEN /\ flag' = flag - 1
            /\ mpc' = [mpc EXCEPT ![t] = IF DecAndTest(flag) THEN "cs" ELSE "undo_lock"]
            /\ UNCHANGED plocked
       ELSE /\ PthreadTry(plocked)
            /\ plocked' = TRUE
            /\ mpc' = [mpc EXCEPT ![t] = "cs"]
            /\ UNCHANGED flag
    /\ UNCHANGED variant
    /\ MutexFrame

\* The MADATOMIC_INT_INC(&flag) of a failed try_lock() (atomic variant).
MutexUndo(t) ==
    /\ mpc[t] \in {"undo_try", "undo_lock"}
    /\ flag' = flag + 1
    /\ mpc' = [mpc EXCEPT ![t] = IF mpc[t] = "undo_try" THEN "idle" ELSE "locking"]
    /\ UNCHANGED <<variant, plocked>>
    /\ MutexFrame

\* Mutex::unlock() by the thread that holds the mutex.
MutexUnlock(t) ==
    /\ mpc[t] = "cs"
    /\ IF variant = "atomic"
       THEN flag' = flag + 1 /\ UNCHANGED plocked
       ELSE plocked' = FALSE /\ UNCHANGED flag
    /\ mpc' = [mpc EXCEPT ![t] = "idle"]
    /\ UNCHANGED variant
    /\ MutexFrame

\* ====================================================== MutexReaderWriter

\* MutexReaderWriter(): nreader(0), writeflag(false).
RWNew == [nreader |-> 0, writeflag |-> FALSE]

\* The functions below run with the inherited Spinlock held (ScopedMutex
\* protect(this)); each gives the new fields and the value returned.

\* try_read_lock() that does not look at writeflag.
try_read_lockIgnoresWriter(r) ==
    [rw |-> [r EXCEPT !.nreader = r.nreader + 1], ret |-> TRUE]

\* try_read_lock(): gotit = !writeflag; if (gotit) nreader++.
try_read_lock(r) ==
    LET gotit == ~r.writeflag
    IN  [rw |-> IF gotit THEN [r EXCEPT !.nreader = r.nreader + 1] ELSE r, ret |-> gotit]

\* try_write_lock() that does not look at nreader.
try_write_lockIgnoresReaders(r) ==
    LET gotit == ~r.writeflag
    IN  [rw |-> IF gotit THEN [r EXCEPT !.writeflag = TRUE] ELSE r, ret |-> gotit]

\* try_write_lock(): gotit = (!writeflag) && (nreader==0); if (gotit) writeflag = true.
try_write_lock(r) ==
    LET gotit == ~r.writeflag /\ r.nreader = 0
    IN  [rw |-> IF gotit THEN [r EXCEPT !.writeflag = TRUE] ELSE r, ret |-> gotit]

\* try_convert_read_lock_to_write_lock() that accepts other readers.
try_convertAmongReaders(r) ==
    LET gotit == ~r.writeflag /\ r.nreader >= 1
    IN  [rw |-> IF gotit THEN [r EXCEPT !.nreader = r.nreader - 1, !.writeflag = TRUE] ELSE r,
         ret |-> gotit]

\* try_convert_read_lock_to_write_lock() that leaves nreader as it was.
try_convertKeepsReader(r) ==
    LET gotit == ~r.writeflag /\ r.nreader = 1
    IN  [rw |-> IF gotit THEN [r EXCEPT !.writeflag = TRUE] ELSE r, ret |-> gotit]

\* try_convert_read_lock_to_write_lock(): gotit = (!writeflag) && (nreader==1);
\* if (gotit) { nreader = 0; writeflag = true; }.
try_convert_read_lock_to_write_lock(r) ==
    LET gotit == ~r.writeflag /\ r.nreader = 1
    IN  [rw |-> IF gotit THEN [r EXCEPT !.nreader = 0, !.writeflag = TRUE] ELSE r,
         ret |-> gotit]

\* read_unlock(): nreader--.
read_unlock(r) == [r EXCEPT !.nreader = r.nreader - 1]

\* write_unlock(): writeflag = false.
write_unlock(r) == [r EXCEPT !.writeflag = FALSE]

\* convert_write_lock_to_read_lock(): nreader++; writeflag=false.
convert_write_lock_to_read_lock(r) == [r EXCEPT !.nreader = r.nreader + 1, !.writeflag = FALSE]

RwInit ==
    /\ rw = RWNew
    /\ rwhold = [t \in RwThreads |-> "none"]
    /\ rwpc = [t \in RwThreads |-> "idle"]
    /\ rwlast = [op |-> "none", t |-> 0, ret |-> FALSE, before |-> RWNew,
                 held |-> [t \in RwThreads |-> "none"]]

\* The record of a call op by thread t returning ret.
RwCall(op, t, ret) == [op |-> op, t |-> t, ret |-> ret, before |-> rw, held |-> rwhold]

\* Thread t, holding no lock, calls try_read_lock().
RwTryReadLock(t) ==
    /\ rwpc[t] = "idle" /\ rwhold[t] = "none"
    /\ LET r == try_read_lock(rw)
       IN  /\ rw' = r.rw
           /\ rwhold' = [rwhold EXCEPT ![t] = IF r.ret THEN "read" ELSE "none"]
           /\ rwlast' = RwCall("try_read_lock", t, r.ret)
    /\ UNCHANGED rwpc
    /\ RwFrame

\* Thread t, holding no lock, calls try_write_lock().
RwTryWriteLock(t) ==
    /\ rwpc[t] = "idle" /\ rwhold[t] = "none"
    /\ LET r == try_write_lock(rw)
       IN  /\ rw' = r.rw
           /\ rwhold' = [rwhold EXCEPT ![t] = IF r.ret THEN "write" ELSE "none"]
           /\ rwlast' = RwCall("try_write_lock", t, r.ret)
    /\ UNCHANGED rwpc
    /\ RwFrame

\* Thread t, holding a read lock, calls try_convert_read_lock_to_write_lock().
RwTryConvert(t) ==
    /\ rwpc[t] = "idle" /\ rwhold[t] = "read"
    /\ LET r == try_convert_read_lock_to_write_lock(rw)
       IN  /\ rw' = r.rw
           /\ rwhold' = [rwhold EXCEPT ![t] = IF r.ret THEN "write" ELSE "read"]
           /\ rwlast' = RwCall("try_convert_read_lock_to_write_lock", t, r.ret)
    /\ UNCHANGED rwpc
    /\ RwFrame

\* Thread t enters read_lock(), write_lock() (holding no lock) or
\* convert_read_lock_to_write_lock() (holding a read lock).
RwBlockingCall(t, op) ==
    /\ rwpc[t] = "idle"
    /\ rwhold[t] = IF op = "convert_read_lock_to_write_lock" THEN "read" ELSE "none"
    /\ rwpc' = [rwpc EXCEPT ![t] = op]
    /\ UNCHANGED <<rw, rwhold, rwlast>>
    /\ RwFrame

\* One iteration of while (!try_read_lock()) waiter.wait().
RwReadLockAttempt(t) ==
    /\ rwpc[t] = "read_lock"
    /\ LET r == try_read_lock(rw)
       IN  /\ rw' = r.rw
           /\ rwhold' = [rwhold EXCEPT ![t] = IF r.ret THEN "read" ELSE "none"]
           /\ rwpc' = [rwpc EXCEPT ![t] = IF r.ret THEN "idle" ELSE "read_lock"]
           /\ rwlast' = RwCall("read_lock", t, r.ret)
    /\ RwFrame

\* One iteration of while (!try_write_lock()) waiter.wait().
RwWriteLockAttempt(t) ==
    /\ rwpc[t] = "write_lock"
    /\ LET r == try_write_lock(rw)
       IN  /\ rw' = r.rw
           /\ rwhold' = [rwhold EXCEPT ![t] = IF r.ret THEN "write" ELSE "none"]
           /\ rwpc' = [rwpc EXCEPT ![t] = IF r.ret THEN "idle" ELSE "write_lock"]
           /\ rwlast' = RwCall("write_lock", t, r.ret)
    /\ RwFrame

\* One iteration of while (!try_convert_read_lock_to_write_lock()) waiter.wait().
RwConvertAttempt(t) ==
    /\ rwpc[t] = "convert_read_lock_to_write_lock"
    /\ LET r == try_convert_read_lock_to_write_lock(rw)
       IN  /\ rw' = r.rw
           /\ rwhold' = [rwhold EXCEPT ![t] = IF r.ret THEN "write" ELSE "read"]
           /\ rwpc' = [rwpc EXCEPT ![t] =
                          IF r.ret THEN "idle" ELSE "convert_read_lock_to_write_lock"]
           /\ rwlast' = RwCall("convert_read_lock_to_write_lock", t, r.ret)
    /\ RwFrame

\* Thread t, holding a read lock, calls read_unlock().
RwReadUnlock(t) ==
    /\ rwpc[t] = "idle" /\ rwhold[t] = "read"
    /\ rw' = read_unlock(rw)
    /\ rwhold' = [rwhold EXCEPT ![t] = "none"]
    /\ rwlast' = RwCall("read_unlock", t, TRUE)
    /\ UNCHANGED rwpc
    /\ RwFrame

\* Thread t, holding the write lock, calls write_unlock().
RwWriteUnlock(t) ==
    /\ rwpc[t] = "idle" /\ rwhold[t] = "write"
    /\ rw' = write_unlock(rw)
    /\ rwhold' = [rwhold EXCEPT ![t] = "none"]
    /\ rwlast' = RwCall("write_unlock", t, TRUE)
    /\ UNCHANGED rwpc
    /\ RwFrame

\* Thread t, holding the write lock, calls convert_write_lock_to_read_lock().
RwConvertDown(t) ==
    /\ rwpc[t] = "idle" /\ rwhold[t] = "write"
    /\ rw' = convert_write_lock_to_read_lock(rw)
    /\ rwhold' = [rwhold EXCEPT ![t] = "read"]
    /\ rwlast' = RwCall("convert_write_lock_to_read_lock", t, TRUE)
    /\ UNCHANGED rwpc
    /\ RwFrame

\* ====================================================== ConditionVariable

\* ConditionVariable::ConditionVariable(): nsig(0), front(0), back(0).  The
\* slots of q are not initialised; no slot is read before it is written.
CVNew == [nsig |-> 0, front |-> 0, back |-> 0, q |-> [i \in 0..(CV_MAX_NTHREAD - 1) |-> 0]]

\* ConditionVariable::wakeup(), called with the mutex held.  c is the
\* condition variable, turn the myturn flags the slots of q point to.
RECURSIVE wakeup(_, _)
wakeup(c, turn) ==
    IF c.nsig # 0 /\ c.front # c.back
    THEN LET f == c.front
             c2 == [c EXCEPT !.nsig = c.nsig - 1,
                             !.q[f] = 0,
                             !.front = IF f + 1 >= CV_MAX_NTHREAD THEN 0 ELSE f + 1]
         IN  wakeup(c2, [turn EXCEPT ![c.q[f]] = TRUE])
    ELSE [cv |-> c, turn |-> turn]

\* ConditionVariable::signal(), called with the mutex held.
signalNoCount(c, turn) == wakeup(c, turn)

signal(c, turn) == wakeup([c EXCEPT !.nsig = c.nsig + 1], turn)

\* wait() takes the first branch: if (nsig).
WaitConsumes(c) == c.nsig # 0

\* First part of ConditionVariable::wait() by thread t, up to the return (a
\* signal was pending: nsig--, then wakeup()) or up to unlock() (the flag of
\* t is appended to the ring and t is about to spin on it).  The second
\* branch, else if (nsig == 0), is taken whenever the first is not, so the
\* third (nsig < 0, the throw) is never taken.
waitEnter(c, turn, t) ==
    IF WaitConsumes(c)
    THEN LET w == wakeup([c EXCEPT !.nsig = c.nsig - 1], turn)
         IN  [cv |-> w.cv, turn |-> w.turn, blocks |-> FALSE]
    ELSE LET b == c.back
         IN  [cv |-> [c EXCEPT !.q[b] = t,
                               !.back = IF b + 1 >= CV_MAX_NTHREAD THEN 0 ELSE b + 1],
              turn |-> [turn EXCEPT ![t] = FALSE],
              blocks |-> TRUE]

\* Second part of wait(): the spin ended (myturn is set), lock() and wakeup().
waitResume(c, turn) == wakeup(c, turn)


\* ------------------------------------------- stand-alone ConditionVariable

\* Threads whose myturn flag is set by a step from turn to turn2.
Released(turn, turn2) == {u \in DOMAIN turn : ~turn[u] /\ turn2[u]}

\* s without the elements of the set S.
Without(s, S) == SelectSeq(s, LAMBDA u : u \notin S)

\* Threads spinning in wait() on a flag that is still false.
CvBlocked == {u \in CvThreads : cvpc[u] = "spin" /\ ~myturn[u]}

CvInit ==
    /\ cv = CVNew
    /\ myturn = [t \in CvThreads |-> FALSE]
    /\ cvpc = [t \in CvThreads |-> "idle"]
    /\ cvpend = <<>>
    /\ cvop = [op |-> "none", t |-> 0, imm |-> FALSE]

\* lock(); signal(); unlock() by thread t.
CvSignal(t) ==
    /\ cvpc[t] = "idle"
    /\ cv.nsig < MaxSig
    /\ LET r == signal(cv, myturn)
       IN  /\ cv' = r.cv
           /\ myturn' = r.turn
           /\ cvpend' = Without(cvpend, Released(myturn, r.turn))
    /\ cvop' = [op |-> "signal", t |-> t, imm |-> FALSE]
    /\ UNCHANGED cvpc
    /\ CvFrame

\* lock(); wait() by thread t up to its return or up to the unlock() before
\* the spin.  At most CV_MAX_NTHREAD threads wait at the same time.
CvWait(t) ==
    /\ cvpc[t] = "idle"
    /\ Len(cvpend) < CV_MAX_NTHREAD
    /\ LET r == waitEnter(cv, myturn, t)
           left == Without(cvpend, Released(myturn, r.turn))
       IN  /\ cv' = r.cv
           /\ myturn' = r.turn
           /\ cvpc' = [cvpc EXCEPT ![t] = IF r.blocks THEN "spin" ELSE "idle"]
           /\ cvpend' = IF r.blocks THEN Append(left, t) ELSE left
           /\ cvop' = [op |-> "wait", t |-> t, imm |-> ~r.blocks]
    /\ CvFrame

\* while (!myturn) ended; lock(); wakeup(); return from wait(); unlock().
\* The flag of t goes out of scope.
CvResume(t) ==
    /\ cvpc[t] = "spin"
    /\ myturn[t]
    /\ LET r == waitResume(cv, myturn)
       IN  /\ cv' = r.cv
           /\ myturn' = [r.turn EXCEPT ![t] = FALSE]
           /\ cvpend' = Without(cvpend, Released(myturn, r.turn))
    /\ cvpc' = [cvpc EXCEPT ![t] = "idle"]
    /\ cvop' = [op |-> "resume", t |-> t, imm |-> FALSE]
    /\ CvFrame

\* ============================================================== MutexFair

\* MutexFair::MutexFair(): n(0), front(0), back(0).  The slots of q are not
\* initialised; no slot is read before it is written.
MFNew == [n |-> 0, front |-> 0, back |-> 0, q |-> [i \in 0..(MF_MAX_NTHREAD - 1) |-> 0]]

FairInit ==
    /\ mf = MFNew
    /\ mflocked = FALSE
    /\ mfturn = [t \in FairThreads |-> FALSE]
    /\ mfp = [t \in FairThreads |-> 0]
    /\ mfpc = [t \in FairThreads |-> "idle"]
    /\ mfpend = <<>>

\* lock() writing its flag pointer to q[back] without moving back on.
lockSlotStuck(m) == m.back

\* back++; if (back >= MAX_NTHREAD) back = 0;
lockSlot(m) == IF m.back + 1 >= MF_MAX_NTHREAD THEN 0 ELSE m.back + 1

\* front++; if (front >= MAX_NTHREAD) front = 0;
unlockSlotNewest(m) == m.back

unlockSlot(m) == IF m.front + 1 >= MF_MAX_NTHREAD THEN 0 ELSE m.front + 1

\* The part of MutexFair::lock() between Mutex::lock() and Mutex::unlock().
\* A throw leaves the inherited Mutex locked (there is no unlock on that
\* path); the throw of "invalid state (2)" comes after n++.
FairLock(t) ==
    /\ mfpc[t] = "idle"
    /\ ~mflocked
    /\ IF mf.n < 0 \/ mf.n >= MF_MAX_NTHREAD
       THEN /\ mflocked' = TRUE
            /\ mfpc' = [mfpc EXCEPT ![t] = "threw"]
            /\ UNCHANGED <<mf, mfturn, mfpend>>
       ELSE IF mf.n + 1 = 1
       THEN /\ mf' = [mf EXCEPT !.n = mf.n + 1]
            /\ mflocked' = (mf.front # mf.back)
            /\ mfpc' = [mfpc EXCEPT ![t] = IF mf.front # mf.back THEN "threw" ELSE "held"]
            /\ UNCHANGED <<mfturn, mfpend>>
       ELSE /\ mf' = [mf EXCEPT !.n = mf.n + 1,
                                !.back = lockSlot(mf),
                                !.q[lockSlot(mf)] = t]
            /\ mfturn' = [mfturn EXCEPT ![t] = FALSE]
            /\ mfpc' = [mfpc EXCEPT ![t] = "spin"]
            /\ mfpend' = Append(mfpend, t)
            /\ UNCHANGED mflocked
    /\ UNCHANGED mfp
    /\ FairFrame

\* while (!myturn) waiter.wait() ends: lock() returns.  The flag goes out
\* of scope.
FairSpinEnd(t) ==
    /\ mfpc[t] = "spin"
    /\ mfturn[t]
    /\ mfpc' = [mfpc EXCEPT ![t] = "held"]
    /\ mfturn' = [mfturn EXCEPT ![t] = FALSE]
    /\ UNCHANGED <<mf, mflocked, mfp, mfpend>>
    /\ FairFrame

\* The part of MutexFair::unlock() between Mutex::lock() and Mutex::unlock(),
\* by the thread that holds the fair mutex.
FairUnlock(t) ==
    /\ mfpc[t] = "held"
    /\ ~mflocked
    /\ IF mf.n < 1 \/ mf.n > MF_MAX_NTHREAD
       THEN /\ mflocked' = TRUE
            /\ mfpc' = [mfpc EXCEPT ![t] = "threw"]
            /\ UNCHANGED <<mf, mfp>>
       ELSE IF mf.n - 1 > 0
       THEN /\ mf' = [mf EXCEPT !.n = mf.n - 1, !.front = unlockSlot(mf)]
            /\ mfp' = [mfp EXCEPT ![t] = mf.q[unlockSlot(mf)]]
            /\ mfpc' = [mfpc EXCEPT ![t] = IF mf.q[unlockSlot(mf)] # 0 THEN "setflag" ELSE "idle"]
            /\ UNCHANGED mflocked
       ELSE /\ mf' = [mf EXCEPT !.n = mf.n - 1]
            /\ mflocked' = (mf.front # mf.back)
            /\ mfpc' = [mfpc EXCEPT ![t] = IF mf.front # mf.back THEN "threw" ELSE "idle"]
            /\ UNCHANGED mfp
    /\ UNCHANGED <<mfturn, mfpend>>
    /\ FairFrame

\* if (p) *p = true; at the end of unlock(), after Mutex::unlock().
FairGrant(t) ==
    /\ mfpc[t] = "setflag"
    /\ mfturn' = [mfturn EXCEPT ![mfp[t]] = TRUE]
    /\ mfpend' = Without(mfpend, {mfp[t]})
    /\ mfp' = [mfp EXCEPT ![t] = 0]
    /\ mfpc' = [mfpc EXCEPT ![t] = "idle"]
    /\ UNCHANGED <<mf, mflocked>>
    /\ FairFrame

\* try_lock() that also succeeds while one thread holds the mutex.
tryGetsWhenHeld(m) == m.n <= 1

\* got_lock = (n == 0) in MutexFair::try_lock().
tryGets(m) == m.n = 0

\* MutexFair::try_lock().
FairTryLock(t) ==
    /\ mfpc[t] = "idle"
    /\ ~mflocked
    /\ mf' = [mf EXCEPT !.n = IF tryGets(mf) THEN mf.n + 1 ELSE mf.n]
    /\ mfpc' = [mfpc EXCEPT ![t] = IF tryGets(mf) THEN "held" ELSE "idle"]
    /\ UNCHANGED <<mflocked, mfturn, mfp, mfpend>>
    /\ FairFrame

\* ================================================================= DQueue

\* DQStats::DQStats(): all counters zero.
DQStatsNew ==
    [nmax |-> 0, npush_back |-> 0, npush_front |-> 0,
     npop_back |-> 0, npop_front |-> 0, ngrow |-> 0]

\* DQueue::DQueue(hint): sz(hint>2 ? hint : 2), buf(new T[sz]),
\* _front(sz/2), _back(_front-1), n(0).  buf holds the slots that have been
\* written; the others are uninitialised and are never read.
DQNew(hint) ==
    LET s == IF hint > 2 THEN hint ELSE 2
    IN  [sz |-> s, buf |-> << >>, front |-> s \div 2, back |-> s \div 2 - 1,
         n |-> 0, stats |-> DQStatsNew]

\* The growth rule with doubling above 1048576 as well.
growSizeAlwaysDouble(sz) == IF sz < 32768 THEN 65536 ELSE sz * 2

\* The new capacity chosen by DQueue::grow().
growSize(sz) ==
    IF sz < 32768 THEN 65536
    ELSE IF sz <= 1048576 THEN sz * 2
    ELSE sz + 1048576

\* DQueue::sanity_check(): the value num is compared with n.
sanityNum(d) ==
    LET num0 == d.back - d.front + 1
        num1 == IF num0 < 0 THEN num0 + d.sz ELSE num0
        num2 == IF num1 = d.sz /\ d.n = 0 THEN 0 ELSE num1
    IN  IF num2 = 0 /\ d.n = d.sz THEN d.sz ELSE num2

\* sanity_check() does not throw.
sanityOK(d) == d.n = sanityNum(d)

\* grow() with its two copy loops exchanged: the wrapped part is copied first.
growUnrotated(d) ==
    LET oldsz == d.sz
        newsz == growSize(oldsz)
        lo    == newsz \div 2 - oldsz \div 2
        n2    == IF d.front > 0 THEN d.back + 1 ELSE 0
        second == [j \in lo..(lo + n2 - 1) |-> d.buf[j - lo]]
        first == [j \in (lo + n2)..(lo + oldsz - 1) |-> d.buf[d.front + (j - lo - n2)]]
    IN  [d EXCEPT !.stats.ngrow = d.stats.ngrow + 1,
                  !.sz = newsz,
                  !.buf = first @@ second,
                  !.front = lo,
                  !.back = lo + d.n - 1]

\* DQueue::grow(): the two copy loops, then the new _front, _back and buf.
\* Its only callers test n == sz first, so its own test of sz != n passes;
\* the sanity_check() that ends it is pushThrows.
grow(d) ==
    LET oldsz == d.sz
        newsz == growSize(oldsz)
        lo    == newsz \div 2 - oldsz \div 2
        n1    == oldsz - d.front
        first == [j \in lo..(lo + n1 - 1) |-> d.buf[d.front + (j - lo)]]
        second == IF d.front > 0
                  THEN [j \in (lo + n1)..(lo + n1 + d.back) |-> d.buf[j - lo - n1]]
                  ELSE << >>
    IN  [d EXCEPT !.stats.ngrow = d.stats.ngrow + 1,
                  !.sz = newsz,
                  !.buf = first @@ second,
                  !.front = lo,
                  !.back = lo + d.n - 1]

\* if (n == sz) grow();
grown(d) == IF d.n = d.sz THEN grow(d) ELSE d

\* A push that stores the current n in stats.nmax whatever it was.
peakCurrent(d) == [d EXCEPT !.stats.nmax = d.n]

\* if (n > stats.nmax) stats.nmax = n;
peak(d) == IF d.n > d.stats.nmax THEN [d EXCEPT !.stats.nmax = d.n] ELSE d

\* The push throws out of grow(): its sanity_check() fails.  The rest of
\* the push, signal() included, is skipped.
pushThrows(d) == d.n = d.sz /\ ~sanityOK(grow(d))

\* DQueue::push_front(value) up to, not including, signal().
push_frontAtBack(d, value) ==
    LET g == grown([d EXCEPT !.stats.npush_front = d.stats.npush_front + 1])
        b == IF g.back + 1 >= g.sz THEN 0 ELSE g.back + 1
    IN  peak([g EXCEPT !.back = b, !.buf = (b :> value) @@ g.buf, !.n = g.n + 1])

push_front(d, value) ==
    LET g == grown([d EXCEPT !.stats.npush_front = d.stats.npush_front + 1])
        f == IF g.front - 1 < 0 THEN g.sz - 1 ELSE g.front - 1
    IN  IF pushThrows(d) THEN g
        ELSE peak([g EXCEPT !.front = f, !.buf = (f :> value) @@ g.buf, !.n = g.n + 1])

\* DQueue::push_back(value) up to, not including, signal().
push_back(d, value) ==
    LET g == grown([d EXCEPT !.stats.npush_back = d.stats.npush_back + 1])
        b == IF g.back + 1 >= g.sz THEN 0 ELSE g.back + 1
    IN  IF pushThrows(d) THEN g
        ELSE peak([g EXCEPT !.back = b, !.buf = (b :> value) @@ g.buf, !.n = g.n + 1])

\* A pop_front that leaves stats.npop_front alone.
countPopFrontNever(d) == d

\* stats.npop_front++ and stats.npop_back++ at the start of the pops.
countPopFront(d) == [d EXCEPT !.stats.npop_front = d.stats.npop_front + 1]

countPopBack(d) == [d EXCEPT !.stats.npop_back = d.stats.npop_back + 1]

\* pop_front that takes its element but leaves _front where it was.
popFrontNoAdvance(d) ==
    IF d.n # 0
    THEN [d |-> [d EXCEPT !.n = d.n - 1], val |-> d.buf[d.front], ok |-> TRUE]
    ELSE [d |-> d, val |-> 0, ok |-> FALSE]

\* pop_front that moves _front on without wrapping it to 0.
popFrontNoWrap(d) ==
    IF d.n # 0
    THEN [d |-> [d EXCEPT !.n = d.n - 1, !.front = d.front + 1],
          val |-> d.buf[d.front], ok |-> TRUE]
    ELSE [d |-> d, val |-> 0, ok |-> FALSE]

\* DQueue::pop_front(wait) after the optional wait(): result = T() is 0.
popFront(d) ==
    IF d.n # 0
    THEN [d |-> [d EXCEPT !.n = d.n - 1,
                          !.front = IF d.front + 1 >= d.sz THEN 0 ELSE d.front + 1],
          val |-> d.buf[d.front], ok |-> TRUE]
    ELSE [d |-> d, val |-> 0, ok |-> FALSE]

\* pop_back taking its element at _front.
popBackAtFront(d, junk) ==
    IF d.n # 0
    THEN [d |-> [d EXCEPT !.n = d.n - 1,
                          !.front = IF d.front + 1 >= d.sz THEN 0 ELSE d.front + 1],
          val |-> d.buf[d.front], ok |-> TRUE]
    ELSE [d |-> d, val |-> junk, ok |-> FALSE]

\* DQueue::pop_back(wait) after the optional wait().  result is declared
\* without an initialiser: when the deque is empty the value returned is
\* whatever the local held, junk.
popBack(d, junk) ==
    IF d.n # 0
    THEN [d |-> [d EXCEPT !.n = d.n - 1,
                          !.back = IF d.back - 1 < 0 THEN d.sz - 1 ELSE d.back - 1],
          val |-> d.buf[d.back], ok |-> TRUE]
    ELSE [d |-> d, val |-> junk, ok |-> FALSE]

\* if (wait) ConditionVariable::wait(); up to the return of wait() or up to
\* the unlock() before its spin.
popWait(c, turn, t, wait) ==
    IF wait THEN waitEnter(c, turn, t) ELSE [cv |-> c, turn |-> turn, blocks |-> FALSE]

\* DQueue::size().
size(d) == d.n

\* The elements of the deque from front to back.
DQSeq(d) == [k \in 1..d.n |-> d.buf[(d.front + k - 1) % d.sz]]

Values == 1..NVals

\* ------------------------------------------------ DQueue used by one thread

NoResult == [op |-> "none", val |-> 0, ok |-> FALSE, mval |-> 0, mok |-> FALSE]

DqInit ==
    /\ \E hint \in 0..MaxHint : dq = DQNew(hint)
    /\ cv = CVNew
    /\ myturn = << >>
    /\ model = <<>>
    /\ dqres = NoResult

Pushes(d) == d.stats.npush_front + d.stats.npush_back

Pops(d) == d.stats.npop_front + d.stats.npop_back

\* push_front(v): the push, then signal().
SeqPushFront(v) ==
    /\ Pushes(dq) < MaxPush
    /\ dq' = push_front(dq, v)
    /\ cv' = IF pushThrows(dq) THEN cv ELSE signal(cv, myturn).cv
    /\ model' = <<v>> \o model
    /\ UNCHANGED <<myturn, dqres>>
    /\ DqFrame

\* push_back(v): the push, then signal().
SeqPushBack(v) ==
    /\ Pushes(dq) < MaxPush
    /\ dq' = push_back(dq, v)
    /\ cv' = IF pushThrows(dq) THEN cv ELSE signal(cv, myturn).cv
    /\ model' = Append(model, v)
    /\ UNCHANGED <<myturn, dqres>>
    /\ DqFrame

\* pop_front(false).
SeqPopFront ==
    /\ Pops(dq) < MaxPop
    /\ LET r == popFront(countPopFront(dq))
       IN  /\ dq' = r.d
           /\ dqres' = [op |-> "pop_front", val |-> r.val, ok |-> r.ok,
                        mval |-> IF model # <<>> THEN Head(model) ELSE 0,
                        mok |-> model # <<>>]
    /\ model' = IF model # <<>> THEN Tail(model) ELSE model
    /\ UNCHANGED <<cv, myturn>>
    /\ DqFrame

\* pop_back(false).
SeqPopBack ==
    /\ Pops(dq) < MaxPop
    /\ \E junk \in 0..NVals :
          LET r == popBack(countPopBack(dq), junk)
          IN  /\ dq' = r.d
              /\ dqres' = [op |-> "pop_back", val |-> r.val, ok |-> r.ok,
                           mval |-> IF model # <<>> THEN model[Len(model)] ELSE 0,
                           mok |-> model # <<>>]
    /\ model' = IF model # <<>> THEN SubSeq(model, 1, Len(model) - 1) ELSE model
    /\ UNCHANGED <<cv, myturn>>
    /\ DqFrame

\* ------------------------- DQueue used by one thread, its calls recorded

\* The thread making the calls.
CallThread == 1

\* A call: its name and wait argument, the value pushed (0 for a pop), the
\* deque and the pending-signal count as the call found them, whether it
\* has returned (ret) and the pair a pop returned.
Call(op, wait, val, ret, rval, rok) ==
    [op |-> op, wait |-> wait, val |-> val, before |-> dq, nsig |-> cv.nsig,
     ret |-> ret, rval |-> rval, rok |-> rok]

NoCall ==
    [op |-> "none", wait |-> FALSE, val |-> 0, before |-> DQNew(0), nsig |-> 0,
     ret |-> TRUE, rval |-> 0, rok |-> FALSE]

DqCallsInit ==
    /\ \E hint \in 0..MaxHint : dq = DQNew(hint)
    /\ cv = CVNew
    /\ myturn = [t \in {CallThread} |-> FALSE]
    /\ dqlast = NoCall
    /\ dqprev = NoCall
    /\ dqblocked = FALSE

\* push_front(v): the push, then signal().
CallPushFront(v) ==
    /\ ~dqblocked
    /\ Pushes(dq) < CallMaxPush
    /\ dq' = push_front(dq, v)
    /\ cv' = IF pushThrows(dq) THEN cv ELSE signal(cv, myturn).cv
    /\ dqlast' = Call("push_front", FALSE, v, TRUE, 0, FALSE)
    /\ dqprev' = dqlast
    /\ UNCHANGED <<myturn, dqblocked>>
    /\ DqCallsFrame

\* push_back(v): the push, then signal().
CallPushBack(v) ==
    /\ ~dqblocked
    /\ Pushes(dq) < CallMaxPush
    /\ dq' = push_back(dq, v)
    /\ cv' = IF pushThrows(dq) THEN cv ELSE signal(cv, myturn).cv
    /\ dqlast' = Call("push_back", FALSE, v, TRUE, 0, FALSE)
    /\ dqprev' = dqlast
    /\ UNCHANGED <<myturn, dqblocked>>
    /\ DqCallsFrame

\* pop_front(wait), up to its return or up to the spin in wait(), which no
\* other thread ends.
CallPopFront(wait) ==
    /\ ~dqblocked
    /\ Pops(dq) < CallMaxPop
    /\ LET w == popWait(cv, myturn, CallThread, wait)
           r == popFront(countPopFront(dq))
       IN  /\ cv' = w.cv
           /\ myturn' = w.turn
           /\ dqblocked' = w.blocks
           /\ IF w.blocks
              THEN /\ dq' = countPopFront(dq)
                   /\ dqlast' = Call("pop_front", wait, 0, FALSE, 0, FALSE)
              ELSE /\ dq' = r.d
                   /\ dqlast' = Call("pop_front", wait, 0, TRUE, r.val, r.ok)
    /\ dqprev' = dqlast
    /\ DqCallsFrame

\* pop_back(wait), up to its return or up to the spin in wait().
CallPopBack(wait) ==
    /\ ~dqblocked
    /\ Pops(dq) < CallMaxPop
    /\ \E junk \in 0..NVals :
       LET w == popWait(cv, myturn, CallThread, wait)
           r == popBack(countPopBack(dq), junk)
       IN  /\ cv' = w.cv
           /\ myturn' = w.turn
           /\ dqblocked' = w.blocks
           /\ IF w.blocks
              THEN /\ dq' = countPopBack(dq)
                   /\ dqlast' = Call("pop_back", wait, 0, FALSE, 0, FALSE)
              ELSE /\ dq' = r.d
                   /\ dqlast' = Call("pop_back", wait, 0, TRUE, r.val, r.ok)
    /\ dqprev' = dqlast
    /\ DqCallsFrame

\* -------------------------------------------- DQueue used by several threads

NoPop == [op |-> "none", wait |-> FALSE, val |-> 0, ok |-> FALSE, blocked |-> FALSE]

DqcInit ==
    /\ \E hint \in 0..MaxHint : dq = DQNew(hint)
    /\ cv = CVNew
    /\ myturn = [t \in DqThreads |-> FALSE]
    /\ dpc = [t \in DqThreads |-> "idle"]
    /\ dres = [t \in DqThreads |-> NoPop]
    /\ dmaxw = 0

\* Threads spinning in the wait() of a pop on a flag that is still false.
DqcWaiting == {u \in DqThreads : dpc[u] \in {"spin_front", "spin_back"} /\ ~myturn[u]}

\* The push of thread t followed by signal(), under the ScopedMutex.
DqcPush(t, d2) ==
    /\ dpc[t] = "idle"
    /\ Pushes(dq) < MaxConcPush
    /\ dq' = d2
    /\ LET r == IF pushThrows(dq) THEN [cv |-> cv, turn |-> myturn] ELSE signal(cv, myturn)
       IN  cv' = r.cv /\ myturn' = r.turn
    /\ dmaxw' = IF Cardinality(DqcWaiting) > dmaxw THEN Cardinality(DqcWaiting) ELSE dmaxw
    /\ UNCHANGED <<dpc, dres>>
    /\ DqcFrame

DqcPushFront(t, v) == DqcPush(t, push_front(dq, v))

DqcPushBack(t, v) == DqcPush(t, push_back(dq, v))

\* pop_front(wait) by thread t, up to its return or up to the spin in wait().
DqcPopFront(t, wait) ==
    /\ dpc[t] = "idle"
    /\ Pops(dq) < MaxConcPop
    /\ LET w == popWait(cv, myturn, t, wait)
           r == popFront(countPopFront(dq))
       IN  /\ cv' = w.cv
           /\ myturn' = w.turn
           /\ IF w.blocks
              THEN /\ dq' = countPopFront(dq)
                   /\ dpc' = [dpc EXCEPT ![t] = "spin_front"]
                   /\ UNCHANGED dres
              ELSE /\ dq' = r.d
                   /\ dres' = [dres EXCEPT ![t] = [op |-> "pop_front", wait |-> wait,
                                                   val |-> r.val, ok |-> r.ok,
                                                   blocked |-> FALSE]]
                   /\ UNCHANGED dpc
    /\ UNCHANGED dmaxw
    /\ DqcFrame

\* pop_back(wait) by thread t, up to its return or up to the spin in wait().
DqcPopBack(t, wait) ==
    /\ dpc[t] = "idle"
    /\ Pops(dq) < MaxConcPop
    /\ \E junk \in 0..NVals :
       LET w == popWait(cv, myturn, t, wait)
           r == popBack(countPopBack(dq), junk)
       IN  /\ cv' = w.cv
           /\ myturn' = w.turn
           /\ IF w.blocks
              THEN /\ dq' = countPopBack(dq)
                   /\ dpc' = [dpc EXCEPT ![t] = "spin_back"]
                   /\ UNCHANGED dres
              ELSE /\ dq' = r.d
                   /\ dres' = [dres EXCEPT ![t] = [op |-> "pop_back", wait |-> wait,
                                                   val |-> r.val, ok |-> r.ok,
                                                   blocked |-> FALSE]]
                   /\ UNCHANGED dpc
    /\ UNCHANGED dmaxw
    /\ DqcFrame

\* The spin of wait() ended: lock(), wakeup(), then the rest of the pop.
DqcResume(t) ==
    /\ dpc[t] \in {"spin_front", "spin_back"}
    /\ myturn[t]
    /\ \E junk \in 0..NVals :
       LET w == waitResume(cv, myturn)
           r == IF dpc[t] = "spin_front" THEN popFront(dq) ELSE popBack(dq, junk)
       IN  /\ cv' = w.cv
           /\ myturn' = [w.turn EXCEPT ![t] = FALSE]
           /\ dq' = r.d
           /\ dres' = [dres EXCEPT ![t] =
                         [op |-> IF dpc[t] = "spin_front" THEN "pop_front" ELSE "pop_back",
                          wait |-> TRUE, val |-> r.val, ok |-> r.ok, blocked |-> TRUE]]
    /\ dpc' = [dpc EXCEPT ![t] = "idle"]
    /\ UNCHANGED dmaxw
    /\ DqcFrame

\* ------------------------------------------------ DQueue driven by a script

\* The thread running the script.
ScriptThread == 1

ScriptInit ==
    /\ \E hint \in 0..ScriptMaxHint : dq = DQNew(hint)
    /\ cv = CVNew
    /\ myturn = [t \in {ScriptThread} |-> FALSE]
    /\ spc = 0
    /\ smode \in {"pop_back", "pop_front"}
    /\ swait \in BOOLEAN
    /\ srot = 0
    /\ sblocked = FALSE
    /\ sout = <<>>

\* Before the script: push_back(5) on the empty deque.
ScriptPrePush ==
    /\ spc = 0 /\ dq.n = 0 /\ srot < ScriptMaxRot
    /\ dq' = push_back(dq, 5)
    /\ cv' = IF pushThrows(dq) THEN cv ELSE signal(cv, myturn).cv
    /\ UNCHANGED <<myturn, spc, smode, swait, srot, sblocked, sout>>
    /\ ScriptFrame

\* Before the script: pop_front(false) takes that element out again.
ScriptPrePop ==
    /\ spc = 0 /\ dq.n = 1
    /\ dq' = popFront(countPopFront(dq)).d
    /\ srot' = srot + 1
    /\ UNCHANGED <<cv, myturn, spc, smode, swait, sblocked, sout>>
    /\ ScriptFrame

\* push_back(1); push_back(2); push_front(3); push_front(4);
ScriptPush ==
    /\ spc < 4 /\ dq.n = spc
    /\ dq' = IF spc < 2 THEN push_back(dq, spc + 1) ELSE push_front(dq, spc + 1)
    /\ cv' = IF pushThrows(dq) THEN cv ELSE signal(cv, myturn).cv
    /\ spc' = spc + 1
    /\ UNCHANGED <<myturn, smode, swait, srot, sblocked, sout>>
    /\ ScriptFrame

\* One of the four pops: pop_back(swait) or pop_front(swait).
ScriptPop ==
    /\ spc >= 4 /\ spc < 8 /\ ~sblocked
    /\ \E junk \in 0..4 :
       LET w == popWait(cv, myturn, ScriptThread, swait)
           r == IF smode = "pop_back"
                THEN popBack(countPopBack(dq), junk)
                ELSE popFront(countPopFront(dq))
       IN  /\ cv' = w.cv
           /\ myturn' = w.turn
           /\ sblocked' = w.blocks
           /\ IF w.blocks
              THEN /\ dq' = IF smode = "pop_back" THEN countPopBack(dq) ELSE countPopFront(dq)
                   /\ UNCHANGED <<spc, sout>>
              ELSE /\ dq' = r.d
                   /\ spc' = spc + 1
                   /\ sout' = Append(sout, [val |-> r.val, ok |-> r.ok])
    /\ UNCHANGED <<smode, swait, srot>>
    /\ ScriptFrame

\* ------------------------------------------- the capacity of a growing DQueue

\* The thresholds of the growth rule and the capacities the rule produces
\* from them.
GrowThresholds == {0, 32768, 65536, 1048576, 2097152}

GrowHints ==
    {h \in UNION {(b - GrowRadius)..(b + GrowRadius) : b \in GrowThresholds} : h >= 0}

\* DQueue(hint): sz(hint>2 ? hint : 2); nothing has grown yet.
GrowInit ==
    /\ \E hint \in GrowHints : gsz = DQNew(hint).sz
    /\ goldsz = 0
    /\ gngrow = 0

\* The deque has been filled (n == sz) and one more push calls grow():
\* stats.ngrow++, oldsz = sz, and the new sz.
GrowFull ==
    /\ gngrow < MaxGrow
    /\ gsz' = growSize(gsz)
    /\ goldsz' = gsz
    /\ gngrow' = gngrow + 1
    /\ GrowFrame

\* ============================================================= ThreadPool

\* Tasks are named by numbers: 1..MaxTasks are the tasks the main thread
\* submits, the next NWorkers are the PoolTaskNull objects made by end().
UserTasks == 1..MaxTasks

NullTasks == (MaxTasks + 1)..(MaxTasks + NWorkers)

\* ThreadPool::ThreadPool(nthread): finish(false), nfinished = 0, the queue
\* default-constructed (hint 32768), the pool threads started.  A pool
\* thread starts at the loop test of thread_main: the set_affinity() call
\* before it returns at once.
PoolInit ==
    /\ dq = DQNew(32768)
    /\ cv = CVNew
    /\ myturn = [w \in Workers |-> FALSE]
    /\ finish = FALSE
    /\ nfinished = 0
    /\ wpc = [w \in Workers |-> "check"]
    /\ wtask = [w \in Workers |-> 0]
    /\ mainpc = "run"
    /\ nsent = 0
    /\ mainruns = 0
    /\ mtask = 0
    /\ hp = << >>
    /\ runs = [k \in UserTasks \cup NullTasks |-> 0]
    /\ popped = 0
    /\ npopped = [k \in UserTasks \cup NullTasks |-> 0]
    /\ ndeleted = [k \in UserTasks \cup NullTasks |-> 0]

\* The count h with one more event of task k.
Counted(h, k) == [h EXCEPT ![k] = h[k] + 1]

\* task->is_high_priority(); a PoolTaskNull has the default attributes.
is_high_priority(task) == task \in DOMAIN hp /\ hp[task]

\* ThreadPool::add(task): the deque after the push_front or push_back.
addAlwaysBack(d, task, high) == push_back(d, task)

add(d, task, high) == IF high THEN push_front(d, task) ELSE push_back(d, task)

\* ThreadPool::add(task) by the main thread, task being a new task with
\* high priority or not.
MainAdd(high) ==
    /\ mainpc = "run"
    /\ Len(hp) < MaxTasks
    /\ dq' = add(dq, Len(hp) + 1, high)
    /\ LET r == signal(cv, myturn)
       IN  cv' = r.cv /\ myturn' = r.turn
    /\ hp' = Append(hp, high)
    /\ UNCHANGED <<finish, nfinished, wpc, wtask, mainpc, nsent, runs, popped, mainruns>>
    /\ UNCHANGED <<npopped, ndeleted>>
    /\ UNCHANGED mtask
    /\ PoolFrame

\* The static ThreadPool::run_task() by the main thread: run_task(false),
\* up to the return of queue.pop_front(false).  The lock of the queue is
\* released there; with no task run_task returns false at once.
MainRunTask ==
    /\ mainpc = "run"
    /\ mainruns < MaxMainRun
    /\ mainruns' = mainruns + 1
    /\ LET r == popFront(countPopFront(dq))
       IN  /\ dq' = r.d
           /\ mtask' = IF r.ok THEN r.val ELSE 0
           /\ mainpc' = IF r.ok THEN "task_run" ELSE "run"
           /\ popped' = IF r.ok THEN r.val ELSE popped
           /\ npopped' = IF r.ok THEN Counted(npopped, r.val) ELSE npopped
    /\ UNCHANGED <<cv, myturn, finish, nfinished, wpc, wtask, nsent, hp, runs, ndeleted>>
    /\ PoolFrame

\* run_task by the main thread: t.first->run(), up to its return.
MainRun ==
    /\ mainpc = "task_run"
    /\ runs' = [runs EXCEPT ![mtask] = runs[mtask] + 1]
    /\ mainpc' = "task_delete"
    /\ UNCHANGED <<dq, cv, myturn, finish, nfinished, wpc, wtask, nsent, hp, popped, mainruns>>
    /\ UNCHANGED <<npopped, ndeleted, mtask>>
    /\ PoolFrame

\* run_task by the main thread: delete t.first; run_task returns true.
MainDelete ==
    /\ mainpc = "task_delete"
    /\ ndeleted' = Counted(ndeleted, mtask)
    /\ mtask' = 0
    /\ mainpc' = "run"
    /\ UNCHANGED <<dq, cv, myturn, finish, nfinished, wpc, wtask, nsent, hp, runs, popped, mainruns>>
    /\ UNCHANGED npopped
    /\ PoolFrame

\* ThreadPool::end(): instance()->finish = true.
MainEndBegin ==
    /\ mainpc = "run"
    /\ finish' = TRUE
    /\ mainpc' = "end_push"
    /\ UNCHANGED <<dq, cv, myturn, nfinished, wpc, wtask, nsent, hp, runs, popped, mainruns>>
    /\ UNCHANGED <<npopped, ndeleted>>
    /\ UNCHANGED mtask
    /\ PoolFrame

\* The number of PoolTaskNull tasks end() adds: i < instance()->nthreads.
nullCountShort == NWorkers - 1

nullCount == NWorkers

\* ThreadPool::end(): one iteration of the loop, add(new PoolTaskNull).
MainEndPush ==
    /\ mainpc = "end_push"
    /\ nsent < nullCount
    /\ dq' = add(dq, MaxTasks + nsent + 1, FALSE)
    /\ LET r == signal(cv, myturn)
       IN  cv' = r.cv /\ myturn' = r.turn
    /\ nsent' = nsent + 1
    /\ UNCHANGED <<finish, nfinished, wpc, wtask, mainpc, hp, runs, popped, mainruns>>
    /\ UNCHANGED <<npopped, ndeleted>>
    /\ UNCHANGED mtask
    /\ PoolFrame

\* ThreadPool::end(): the loop is over, the spin on nfinished starts.
MainEndLoopDone ==
    /\ mainpc = "end_push"
    /\ ~(nsent < nullCount)
    /\ mainpc' = "end_wait"
    /\ UNCHANGED <<dq, cv, myturn, finish, nfinished, wpc, wtask, nsent, hp, runs, popped, mainruns>>
    /\ UNCHANGED <<npopped, ndeleted>>
    /\ UNCHANGED mtask
    /\ PoolFrame

\* ThreadPool::end(): while (nfinished != nthreads) ends, end() returns.
MainEndReturn ==
    /\ mainpc = "end_wait"
    /\ nfinished = NWorkers
    /\ mainpc' = "ended"
    /\ UNCHANGED <<dq, cv, myturn, finish, nfinished, wpc, wtask, nsent, hp, runs, popped, mainruns>>
    /\ UNCHANGED <<npopped, ndeleted>>
    /\ UNCHANGED mtask
    /\ PoolFrame

\* thread_main: the test of while (!finish).
leavesLoop(f) == f

WorkerCheck(w) ==
    /\ wpc[w] = "check"
    /\ wpc' = [wpc EXCEPT ![w] = IF leavesLoop(finish) THEN "exit" ELSE "pop"]
    /\ UNCHANGED <<dq, cv, myturn, finish, nfinished, wtask, mainpc, nsent, hp, runs, popped, mainruns>>
    /\ UNCHANGED <<npopped, ndeleted>>
    /\ UNCHANGED mtask
    /\ PoolFrame

\* run_task(true): queue.pop_front(true) up to its return or up to the spin
\* of wait().
WorkerPop(w) ==
    /\ wpc[w] = "pop"
    /\ LET e == waitEnter(cv, myturn, w)
           r == popFront(countPopFront(dq))
       IN  /\ cv' = e.cv
           /\ myturn' = e.turn
           /\ IF e.blocks
              THEN /\ dq' = countPopFront(dq)
                   /\ wpc' = [wpc EXCEPT ![w] = "spin"]
                   /\ UNCHANGED <<wtask, popped, npopped>>
              ELSE /\ dq' = r.d
                   /\ wpc' = [wpc EXCEPT ![w] = IF r.ok THEN "run" ELSE "check"]
                   /\ wtask' = [wtask EXCEPT ![w] = IF r.ok THEN r.val ELSE 0]
                   /\ popped' = IF r.ok THEN r.val ELSE popped
                   /\ npopped' = IF r.ok THEN Counted(npopped, r.val) ELSE npopped
    /\ UNCHANGED <<finish, nfinished, mainpc, nsent, hp, runs, mainruns>>
    /\ UNCHANGED ndeleted
    /\ UNCHANGED mtask
    /\ PoolFrame

\* The spin of wait() ended: lock(), wakeup(), the rest of pop_front.
WorkerResume(w) ==
    /\ wpc[w] = "spin"
    /\ myturn[w]
    /\ LET e == waitResume(cv, myturn)
           r == popFront(dq)
       IN  /\ cv' = e.cv
           /\ myturn' = [e.turn EXCEPT ![w] = FALSE]
           /\ dq' = r.d
           /\ wpc' = [wpc EXCEPT ![w] = IF r.ok THEN "run" ELSE "check"]
           /\ wtask' = [wtask EXCEPT ![w] = IF r.ok THEN r.val ELSE 0]
           /\ popped' = IF r.ok THEN r.val ELSE popped
           /\ npopped' = IF r.ok THEN Counted(npopped, r.val) ELSE npopped
    /\ UNCHANGED <<finish, nfinished, mainpc, nsent, hp, runs, mainruns>>
    /\ UNCHANGED ndeleted
    /\ UNCHANGED mtask
    /\ PoolFrame

\* run_task: t.first->run(), up to its return.
WorkerRun(w) ==
    /\ wpc[w] = "run"
    /\ runs' = [runs EXCEPT ![wtask[w]] = runs[wtask[w]] + 1]
    /\ wpc' = [wpc EXCEPT ![w] = "delete"]
    /\ UNCHANGED <<dq, cv, myturn, finish, nfinished, wtask, mainpc, nsent, hp, popped, mainruns>>
    /\ UNCHANGED <<npopped, ndeleted>>
    /\ UNCHANGED mtask
    /\ PoolFrame

\* run_task: delete t.first; run_task returns to the loop of thread_main.
WorkerDelete(w) ==
    /\ wpc[w] = "delete"
    /\ ndeleted' = Counted(ndeleted, wtask[w])
    /\ wtask' = [wtask EXCEPT ![w] = 0]
    /\ wpc' = [wpc EXCEPT ![w] = "check"]
    /\ UNCHANGED <<dq, cv, myturn, finish, nfinished, mainpc, nsent, hp, runs, popped, mainruns>>
    /\ UNCHANGED npopped
    /\ UNCHANGED mtask
    /\ PoolFrame

\* MADATOMIC_INT_INC(&nfinished) after the loop of thread_main.
WorkerExit(w) ==
    /\ wpc[w] = "exit"
    /\ nfinished' = nfinished + 1
    /\ wpc' = [wpc EXCEPT ![w] = "done"]
    /\ UNCHANGED <<dq, cv, myturn, finish, wtask, mainpc, nsent, hp, runs, popped, mainruns>>
    /\ UNCHANGED <<npopped, ndeleted>>
    /\ UNCHANGED mtask
    /\ PoolFrame

\* ================================================ ThreadPool construction

\* The characters a value of POOL_NTHREAD is made of: white space, the sign,
\* two digits, a character that is neither.
EnvChars == {" ", "-", "0", "2", "x"}

EnvDigits == {"0", "2"}

RECURSIVE EnvStrings(_)
EnvStrings(len) ==
    IF len = 0 THEN {<< >>}
    ELSE EnvStrings(len - 1) \cup
         {Append(s, ch) : s \in {x \in EnvStrings(len - 1) : Len(x) = len - 1},
                          ch \in EnvChars}

\* getenv("POOL_NTHREAD"): a null pointer or a string.
EnvValues == {[set |-> FALSE, s |-> << >>]} \cup
             {[set |-> TRUE, s |-> s] : s \in EnvStrings(MaxEnvLen)}

\* sscanf with "%d": leading white space is skipped.
RECURSIVE SkipSpace(_)
SkipSpace(s) == IF s # << >> /\ Head(s) = " " THEN SkipSpace(Tail(s)) ELSE s

\* The longest prefix of s made of digits.
RECURSIVE Digits(_)
Digits(s) ==
    IF s # << >> /\ Head(s) \in EnvDigits THEN <<Head(s)>> \o Digits(Tail(s)) ELSE << >>

DigitVal(ch) == IF ch = "2" THEN 2 ELSE 0

RECURSIVE Decimal(_)
Decimal(ds) ==
    IF ds = << >> THEN 0
    ELSE Decimal(SubSeq(ds, 1, Len(ds) - 1)) * 10 + DigitVal(ds[Len(ds)])

\* sscanf(s, "%d", &nthread): the number of items assigned (EOF, -1, when
\* the input ends after the white space; 0 when what follows is not a
\* number, a sign alone included) and the value assigned.  The values of
\* the strings considered are far from the limits of int.
sscanf_d(s) ==
    LET t   == SkipSpace(s)
        neg == t # << >> /\ Head(t) = "-"
        u   == IF neg THEN Tail(t) ELSE t
        ds  == Digits(u)
    IN  IF ds = << >>
        THEN [n |-> IF t = << >> THEN -1 ELSE 0, val |-> 0]
        ELSE [n |-> 1, val |-> IF neg THEN 0 - Decimal(ds) ELSE Decimal(ds)]

\* ThreadPool::default_nthread(): whether it throws, and the value returned.
default_nthread(env, conf) ==
    IF env.set
    THEN IF sscanf_d(env.s).n # 1
         THEN [threw |-> TRUE, nthread |-> 0]
         ELSE [threw |-> FALSE, nthread |-> sscanf_d(env.s).val]
    ELSE [threw |-> FALSE, nthread |-> (IF conf < 2 THEN 2 ELSE conf) - 1]

\* Before ThreadPool::begin(nthread): the environment, the number of
\* processors sysconf reports and the argument of begin().
CtorInit ==
    /\ cenv \in EnvValues
    /\ cconf \in 1..MaxCpuConf
    /\ carg \in (0 - 1)..MaxCtorArg
    /\ cpc = "new"
    /\ cnthreads = 0
    /\ cstarted = 0
    /\ cnfinished = 0
    /\ cadded = 0

\* ThreadPool::ThreadPool(nthread), reached from begin() through
\* instance(): nthreads, then one thread started for each i < nthreads.
CtorThreadPool ==
    /\ cpc = "new"
    /\ LET d == default_nthread(cenv, cconf)
           n == IF carg < 0 THEN d.nthread ELSE carg
       IN  IF carg < 0 /\ d.threw
           THEN /\ cpc' = "threw"
                /\ cnthreads' = carg
                /\ UNCHANGED cstarted
           ELSE /\ cpc' = "built"
                /\ cnthreads' = n
                /\ cstarted' = IF n > 0 THEN n ELSE 0
    /\ UNCHANGED <<cenv, cconf, carg, cnfinished, cadded>>
    /\ CtorFrame

\* ThreadPool::end(): instance()->finish = true.  From here on a pool
\* thread that tests finish leaves its loop.
CtorEndCall ==
    /\ cpc = "built"
    /\ cpc' = "adding"
    /\ UNCHANGED <<cenv, cconf, carg, cnthreads, cstarted, cnfinished, cadded>>
    /\ CtorFrame

\* ThreadPool::end(): one iteration of for (i = 0; i < nthreads; i++),
\* add(new PoolTaskNull).
CtorEndAdd ==
    /\ cpc = "adding"
    /\ cadded < cnthreads
    /\ cadded' = cadded + 1
    /\ UNCHANGED <<cenv, cconf, carg, cpc, cnthreads, cstarted, cnfinished>>
    /\ CtorFrame

\* ThreadPool::end(): the loop is over, the spin on nfinished starts.
CtorEndLoopDone ==
    /\ cpc = "adding"
    /\ ~(cadded < cnthreads)
    /\ cpc' = "ending"
    /\ UNCHANGED <<cenv, cconf, carg, cnthreads, cstarted, cnfinished, cadded>>
    /\ CtorFrame

\* A pool thread leaves thread_main: MADATOMIC_INT_INC(&nfinished).
CtorThreadExit ==
    /\ cpc \in {"adding", "ending"}
    /\ cnfinished < cstarted
    /\ cnfinished' = cnfinished + 1
    /\ UNCHANGED <<cenv, cconf, carg, cpc, cnthreads, cstarted, cadded>>
    /\ CtorFrame

\* ThreadPool::end(): while (nfinished != nthreads) ends, end() returns.
CtorEndReturn ==
    /\ cpc = "ending"
    /\ cnfinished = cnthreads
    /\ cpc' = "ended"
    /\ UNCHANGED <<cenv, cconf, carg, cnthreads, cstarted, cnfinished, cadded>>
    /\ CtorFrame

\* ===================================================== ThreadBase affinity

\* The logical ids: 0 the main thread, 1 the communication thread, 2 the
\* pool threads.
LogicalIds == 0..2

\* Values of sysconf(_SC_NPROCESSORS_CONF): -1 when it fails.
NcpuValues == {0 - 1} \cup 1..MaxNcpu

\* The cpu numbers passed to set_affinity_pattern: negative ones and ones
\* past the last processor included.
CpuValues == (0 - 1)..MaxNcpu

\* set_affinity_pattern: cpulo[i] brought under ncpu only when it is not
\* negative, and never raised.
saneLoNoFloor(lo, ncpu) == IF lo >= ncpu THEN ncpu - 1 ELSE lo

\* set_affinity_pattern: if (cpulo[i] < 0) cpulo[i] = 0;
\* if (cpulo[i] >= ncpu) cpulo[i] = ncpu-1;
saneLo(lo, ncpu) ==
    LET l == IF lo < 0 THEN 0 ELSE lo
    IN  IF l >= ncpu THEN ncpu - 1 ELSE l

\* set_affinity_pattern: cpuhi[i], given the cpulo[i] already made sane.
hiOf(i, bind, lo, ncpu) == IF i < 2 /\ bind[i] THEN lo ELSE ncpu - 1

\* Before any call: the static arrays are zero-initialised, the thread may
\* run on every processor; the arguments set_affinity_pattern will get.
AffInit ==
    /\ ancpu \in NcpuValues
    /\ abind = [i \in LogicalIds |-> FALSE]
    /\ cpulo = [i \in LogicalIds |-> 0]
    /\ cpuhi = [i \in LogicalIds |-> 0]
    /\ apc = "new"
    /\ abindarg \in [LogicalIds -> BOOLEAN]
    /\ acpu \in [LogicalIds -> CpuValues]
    /\ amask = 0..(ancpu - 1)
    /\ acall = [id |-> 0 - 1, ind |-> 0 - 1]

\* ThreadBase::set_affinity_pattern(bind, cpu): the two memcpy, the throw
\* when sysconf fails, the loop over the three logical ids.
SetAffinityPattern(bind, cpu) ==
    /\ apc = "new"
    /\ abind' = bind
    /\ IF ancpu <= 0
       THEN /\ cpulo' = cpu
            /\ apc' = "threw"
            /\ UNCHANGED cpuhi
       ELSE /\ cpulo' = [i \in LogicalIds |-> saneLo(cpu[i], ancpu)]
            /\ cpuhi' = [i \in LogicalIds |-> hiOf(i, bind, saneLo(cpu[i], ancpu), ancpu)]
            /\ apc' = "set"
    /\ UNCHANGED <<ancpu, abindarg, acpu, amask, acall>>
    /\ AffFrame

\* ThreadBase::set_affinity(logical_id, ind): its first statement is
\* return, the affinity of the calling thread is left as it is.  The
\* thread makes the call once, as thread_main does.
SetAffinity(logical_id, ind) ==
    /\ acall.id < 0
    /\ acall' = [id |-> logical_id, ind |-> ind]
    /\ UNCHANGED <<ancpu, abind, cpulo, cpuhi, apc, abindarg, acpu, amask>>
    /\ AffFrame

\* ================================================================== Range

\* An iterator is the position it points at.  No range before construction.
NoRange == [n |-> 0, start |-> 0, finish |-> 0, chunksize |-> 0]

\* The values of the parameter chunksize inside the body of the Range
\* constructor: n / (10*ThreadPool::size()) when it is -1, then at least 1.
\* The division is by zero in a pool without threads.
chunkParam(chunksize, n, psize) ==
    LET c == IF chunksize = 0 - 1 THEN n \div (10 * psize) ELSE chunksize
    IN  IF c < 1 THEN 1 ELSE c

\* Range(start, finish, chunksize): the member chunksize is initialised from
\* the parameter; the two statements that follow the counting loop assign
\* to the parameter, which hides the member, and the member keeps its value.
RangeNew(start, end, chunksize) ==
    [n |-> end - start, start |-> start, finish |-> end, chunksize |-> chunksize]

\* long nhalf = n/2, n being the member of the range under construction.
nhalfOf(n, rn) == n \div 2

\* Range(r, split) without the final finish = r.start: finish stays as
\* finish() made it.
RangeSplitDefaultFinish(r) ==
    LET nhalf == IF r.n > r.chunksize THEN nhalfOf(0, r.n) ELSE 0
        src   == [r EXCEPT !.n = r.n - nhalf, !.start = r.start + nhalf]
    IN  [new |-> [n |-> nhalf, start |-> r.start, finish |-> 0,
                  chunksize |-> r.chunksize],
         src |-> src]

\* Range(r, split): the new range (n(0), start(r.start), chunksize
\* (r.chunksize), nhalf steps of the loop, finish = r.start) and r after it.
RangeSplit(r) ==
    LET nhalf == IF r.n > r.chunksize THEN nhalfOf(0, r.n) ELSE 0
        src   == [r EXCEPT !.n = r.n - nhalf, !.start = r.start + nhalf]
    IN  [new |-> [n |-> nhalf, start |-> r.start, finish |-> src.start,
                  chunksize |-> r.chunksize],
         src |-> src]

\* Before the construction: the iterators, the chunksize argument and the
\* number of threads of the pool.
RangeInit ==
    /\ rstart \in 0..MaxRangeStart
    /\ rlen \in 0..MaxItems
    /\ rchunk \in (0 - 2)..MaxChunk
    /\ rpsize \in 0..MaxPoolSize
    /\ rpc = "new"
    /\ rg = NoRange
    /\ rprev = NoRange
    /\ rnew = NoRange
    /\ rnsplit = 0

\* Range(start, finish, chunksize).  With chunksize == -1 in a pool without
\* threads the division by zero either traps or, its result being unused,
\* is not executed at all.
RangeConstruct ==
    /\ rpc = "new"
    /\ rg' = RangeNew(rstart, rstart + rlen, rchunk)
    /\ \/ rpc' = "built"
       \/ rchunk = 0 - 1 /\ rpsize = 0 /\ rpc' = "trapped"
    /\ UNCHANGED <<rstart, rlen, rchunk, rpsize, rprev, rnew, rnsplit>>
    /\ RangeFrame

\* Range(rg, Split()): a new range split off the range rg.
RangeBisect ==
    /\ rpc = "built"
    /\ rnsplit < MaxSplits
    /\ rprev' = rg
    /\ rnew' = RangeSplit(rg).new
    /\ rg' = RangeSplit(rg).src
    /\ rnsplit' = rnsplit + 1
    /\ UNCHANGED <<rstart, rlen, rchunk, rpsize, rpc>>
    /\ RangeFrame

\* ============================================================ MutexWaiter

\* unsigned arithmetic on MutexWaiter::count.
WaitMod(x) == x % (2 ^ CountWidth)

\* const unsigned int nnap = nspin + 1000, the 1000 scaled to NapCalls.
nnap == nspin + NapCalls

\* const int sleeptime = naptime*10.
sleeptime == naptime * 10

\* MutexWaiter::wait(): the counter after the call and the microseconds it
\* passed to yield(), 0 when it returned without yielding.
waitOnce(count) ==
    LET c == WaitMod(count + 1)
    IN  IF c < nspin
        THEN [count |-> WaitMod(WaitMod(c + 100) + 2 ^ CountWidth - WaitMod(100)), us |-> 0]
        ELSE IF c < nnap
        THEN [count |-> c, us |-> naptime]
        ELSE [count |-> c, us |-> sleeptime]

\* Calls of wait() followed from a fresh or reset waiter: more than the
\* counter can count.
MaxWaitCalls == 2 ^ CountWidth + nnap

\* MutexWaiter(): count(0).
WaiterInit ==
    /\ wcount = 0
    /\ wcalls = 0
    /\ wus = 0

WaiterWait ==
    /\ wcalls < MaxWaitCalls
    /\ wcount' = waitOnce(wcount).count
    /\ wus' = waitOnce(wcount).us
    /\ wcalls' = wcalls + 1
    /\ WaiterFrame

\* MutexWaiter::reset(): count = 0.
WaiterReset ==
    /\ wcount' = 0
    /\ wcalls' = 0
    /\ wus' = 0
    /\ WaiterFrame

\* ========================================================= TaskAttributes

\* Bit i of the unsigned long x.
FlagBit(x, i) == (x \div (2 ^ i)) % 2

\* x & y, x | y and ~x on unsigned long.
RECURSIVE BitAndUpTo(_, _, _)
BitAndUpTo(x, y, i) ==
    IF i < 0 THEN 0
    ELSE FlagBit(x, i) * FlagBit(y, i) * (2 ^ i) + BitAndUpTo(x, y, i - 1)

BitAnd(x, y) == BitAndUpTo(x, y, FlagWidth - 1)

BitNot(x) == (2 ^ FlagWidth) - 1 - x

BitOr(x, y) == BitNot(BitAnd(BitNot(x), BitNot(y)))

\* static const unsigned long GENERATOR = one, STEALABLE = one<<1,
\* HIGHPRIORITY = one<<2.
GENERATOR == 2 ^ 0

STEALABLE == 2 ^ 1

HIGHPRIORITY == 2 ^ 2

is_generator(flags) == BitAnd(flags, GENERATOR) # 0

is_stealable(flags) == BitAnd(flags, STEALABLE) # 0

is_high_priority_flag(flags) == BitAnd(flags, HIGHPRIORITY) # 0

set_generator(flags, generator_hint) ==
    IF generator_hint THEN BitOr(flags, GENERATOR) ELSE BitAnd(flags, BitNot(GENERATOR))

\* set_stealable written with the mask of another flag.
set_stealableOtherMask(flags, stealable) ==
    IF stealable THEN BitOr(flags, STEALABLE) ELSE BitAnd(flags, BitNot(HIGHPRIORITY))

set_stealable(flags, stealable) ==
    IF stealable THEN BitOr(flags, STEALABLE) ELSE BitAnd(flags, BitNot(STEALABLE))

set_highpriority(flags, hipri) ==
    IF hipri THEN BitOr(flags, HIGHPRIORITY) ELSE BitAnd(flags, BitNot(HIGHPRIORITY))

\* serialize(ar), ar & flags: an archive that loads stores the value it
\* reads into flags, an archive that stores leaves flags alone.
serialize(flags, loads, value) == IF loads THEN value ELSE flags

\* The values of the unsigned long flags.
FlagValues == 0..((2 ^ FlagWidth) - 1)

NoSet == [op |-> "none", b |-> FALSE, before |-> 0]

\* TaskAttributes(unsigned long flags = 0): constructed with the default
\* argument or with any value of flags.
AttrInit ==
    /\ tctor \in {"default", "flags"}
    /\ tflags \in (IF tctor = "default" THEN {0} ELSE FlagValues)
    /\ tlast = NoSet

AttrSetGenerator(b) ==
    /\ tflags' = set_generator(tflags, b)
    /\ tlast' = [op |-> "set_generator", b |-> b, before |-> tflags]
    /\ UNCHANGED tctor
    /\ AttrFrame

AttrSetStealable(b) ==
    /\ tflags' = set_stealable(tflags, b)
    /\ tlast' = [op |-> "set_stealable", b |-> b, before |-> tflags]
    /\ UNCHANGED tctor
    /\ AttrFrame

AttrSetHighpriority(b) ==
    /\ tflags' = set_highpriority(tflags, b)
    /\ tlast' = [op |-> "set_highpriority", b |-> b, before |-> tflags]
    /\ UNCHANGED tctor
    /\ AttrFrame

\* TaskAttributes::serialize(ar) with an archive that loads value or with
\* one that stores.
AttrSerialize(loads, value) ==
    /\ tflags' = serialize(tflags, loads, value)
    /\ tlast' = [op |-> "serialize", b |-> loads, before |-> tflags]
    /\ UNCHANGED tctor
    /\ AttrFrame

\* =================================================== ThreadPool singleton

\* The static member functions that reach the pool through instance().
InstCalls == {"begin", "end", "add", "run_task", "size", "get_stats"}

\* The argument instance() gets from each: begin(nthread) passes its own.
InstArgs(call) == IF call = "begin" THEN (0 - 1)..MaxBeginArg ELSE {0 - 1}

NoInstCall == [call |-> "none", arg |-> 0, size |-> 0]

\* The slots threads[i] of a pool.
InstWorkers == 0..(MaxBeginArg - 1)

\* instance() constructing a pool whether or not there is one.
instanceMakesAlways(ptr) == TRUE

\* instance(): if (!instance_ptr).
instanceMakes(ptr) == ptr = 0

\* nthreads of a pool constructed with the argument nthread; the
\* environment does not set POOL_NTHREAD.
nthreadsOf(nthread, conf) ==
    IF nthread < 0 THEN default_nthread([set |-> FALSE, s |-> << >>], conf).nthread
    ELSE nthread

\* Before the first access: instance_ptr is null, no pool, no thread.
InstInit ==
    /\ iconf \in 1..MaxCpuConf
    /\ iptr = 0
    /\ ipools = << >>
    /\ ipc = "idle"
    /\ ii = 0
    /\ ipend = NoInstCall
    /\ ilast = NoInstCall
    /\ istarts = 0
    /\ iwpc = [w \in InstWorkers |-> "none"]
    /\ iwsaw = [w \in InstWorkers |-> 0]
    /\ iwearly = {}

\* The initial thread calls begin(arg), end, add, run_task, size or
\* get_stats: instance(arg), in end() at its first statement.  Without a pool the constructor is entered: a new
\* ThreadPool, nthreads, instance_ptr = this; the thread then is at the
\* loop that starts the threads.  With a pool the call goes to it.
InstCall(call, arg) ==
    /\ ipc = "idle"
    /\ IF instanceMakes(iptr)
       THEN /\ Len(ipools) < MaxPools
            /\ ipools' = Append(ipools, nthreadsOf(arg, iconf))
            /\ iptr' = Len(ipools) + 1
            /\ ipc' = "ctor"
            /\ ii' = 0
            /\ ipend' = [call |-> call, arg |-> arg, size |-> 0]
            /\ UNCHANGED ilast
       ELSE /\ ilast' = [call |-> call, arg |-> arg, size |-> ipools[iptr]]
            /\ UNCHANGED <<ipools, iptr, ipc, ii, ipend>>
    /\ UNCHANGED <<iconf, istarts, iwpc, iwsaw, iwearly>>
    /\ InstFrame

\* The constructor: threads[i].start(pool_thread_main, ...); i++.
InstStart ==
    /\ ipc = "ctor"
    /\ ii < ipools[Len(ipools)]
    /\ iwpc' = [iwpc EXCEPT ![ii] = "started"]
    /\ istarts' = istarts + 1
    /\ ii' = ii + 1
    /\ UNCHANGED <<iconf, iptr, ipools, ipc, ipend, ilast, iwsaw, iwearly>>
    /\ InstFrame

\* The constructor returns, instance() stores the pointer and the call
\* that made the pool goes on with it.
InstBuilt ==
    /\ ipc = "ctor"
    /\ ~(ii < ipools[Len(ipools)])
    /\ iptr' = Len(ipools)
    /\ ipc' = "idle"
    /\ ilast' = [ipend EXCEPT !.size = ipools[Len(ipools)]]
    /\ ipend' = NoInstCall
    /\ UNCHANGED <<iconf, ipools, ii, istarts, iwpc, iwsaw, iwearly>>
    /\ InstFrame

\* A started thread in pool_thread_main: instance()->thread_main(...).
InstWorkerMain(w) ==
    /\ iwpc[w] = "started"
    /\ iwpc' = [iwpc EXCEPT ![w] = "main"]
    /\ iwearly' = IF ipc = "ctor" THEN iwearly \cup {w} ELSE iwearly
    /\ IF instanceMakes(iptr)
       THEN /\ Len(ipools) < MaxPools
            /\ ipools' = Append(ipools, nthreadsOf(0 - 1, iconf))
            /\ iptr' = Len(ipools) + 1
            /\ iwsaw' = [iwsaw EXCEPT ![w] = Len(ipools) + 1]
       ELSE /\ iwsaw' = [iwsaw EXCEPT ![w] = iptr]
            /\ UNCHANGED <<ipools, iptr>>
    /\ UNCHANGED <<iconf, ipc, ii, ipend, ilast, istarts>>
    /\ InstFrame

\* ------------------------------------------------- constructed components

MutexIdle ==
    /\ variant = "pthread"
    /\ MutexInit

RwIdle ==
    /\ rw = RWNew
    /\ rwhold = << >>
    /\ rwpc = << >>
    /\ rwlast = [op |-> "none", t |-> 0, ret |-> FALSE, before |-> RWNew, held |-> << >>]

CvIdle ==
    /\ cv = CVNew
    /\ myturn = << >>

CvTestIdle ==
    /\ cvpc = << >>
    /\ cvpend = <<>>
    /\ cvop = [op |-> "none", t |-> 0, imm |-> FALSE]

FairIdle ==
    /\ mf = MFNew
    /\ mflocked = FALSE
    /\ mfturn = << >>
    /\ mfp = << >>
    /\ mfpc = << >>
    /\ mfpend = <<>>

DqIdle ==
    /\ dq = DQNew(32768)

DqSeqIdle ==
    /\ model = <<>>
    /\ dqres = NoResult

DqCallsIdle ==
    /\ dqlast = NoCall
    /\ dqprev = NoCall
    /\ dqblocked = FALSE

DqConcIdle ==
    /\ dpc = << >>
    /\ dres = << >>
    /\ dmaxw = 0

ScriptIdle ==
    /\ spc = 0
    /\ smode = "pop_back"
    /\ swait = FALSE
    /\ srot = 0
    /\ sblocked = FALSE
    /\ sout = <<>>

GrowIdle ==
    /\ gsz = DQNew(32768).sz
    /\ goldsz = 0
    /\ gngrow = 0

PoolIdle ==
    /\ finish = FALSE
    /\ nfinished = 0
    /\ wpc = << >>
    /\ wtask = << >>
    /\ mainpc = "none"
    /\ nsent = 0
    /\ mainruns = 0
    /\ mtask = 0
    /\ hp = << >>
    /\ runs = << >>
    /\ popped = 0
    /\ npopped = << >>
    /\ ndeleted = << >>

CtorIdle ==
    /\ cenv = [set |-> FALSE, s |-> << >>]
    /\ cconf = 1
    /\ carg = 0
    /\ cpc = "none"
    /\ cnthreads = 0
    /\ cstarted = 0
    /\ cnfinished = 0
    /\ cadded = 0

AffIdle ==
    /\ ancpu = 1
    /\ abind = << >>
    /\ cpulo = << >>
    /\ cpuhi = << >>
    /\ apc = "none"
    /\ abindarg = << >>
    /\ acpu = << >>
    /\ amask = {}
    /\ acall = [id |-> 0 - 1, ind |-> 0 - 1]

RangeIdle ==
    /\ rstart = 0
    /\ rlen = 0
    /\ rchunk = 0
    /\ rpsize = 0
    /\ rpc = "none"
    /\ rg = NoRange
    /\ rprev = NoRange
    /\ rnew = NoRange
    /\ rnsplit = 0

WaiterIdle ==
    /\ wcount = 0
    /\ wcalls = 0
    /\ wus = 0

AttrIdle ==
    /\ tflags = 0
    /\ tctor = "none"
    /\ tlast = NoSet

InstIdle ==
    /\ iconf = 1
    /\ iptr = 0
    /\ ipools = << >>
    /\ ipc = "none"
    /\ ii = 0
    /\ ipend = NoInstCall
    /\ ilast = NoInstCall
    /\ istarts = 0
    /\ iwpc = << >>
    /\ iwsaw = << >>
    /\ iwearly = {}

\* ---------------------------------------------------------- specifications

InitMutex ==
    /\ variant \in {"atomic", "pthread"}
    /\ MutexInit
    /\ CvIdle /\ CvTestIdle /\ FairIdle /\ DqIdle /\ DqSeqIdle /\ DqConcIdle /\ PoolIdle /\ GrowIdle /\ ScriptIdle /\ DqCallsIdle /\ RwIdle /\ CtorIdle /\ AffIdle /\ RangeIdle /\ WaiterIdle /\ AttrIdle /\ InstIdle

NextMutex ==
    \E t \in MutexThreads :
        \/ MutexTryLock(t)
        \/ MutexLockCall(t)
        \/ MutexLockAttempt(t)
        \/ MutexUndo(t)
        \/ MutexUnlock(t)

SpecMutex == InitMutex /\ [][NextMutex]_vars

InitRW ==
    /\ RwInit
    /\ MutexIdle /\ CvIdle /\ CvTestIdle /\ FairIdle /\ DqIdle /\ DqSeqIdle /\ DqConcIdle /\ PoolIdle /\ GrowIdle /\ ScriptIdle /\ DqCallsIdle /\ CtorIdle /\ AffIdle /\ RangeIdle /\ WaiterIdle /\ AttrIdle /\ InstIdle

NextRW ==
    \E t \in RwThreads :
        \/ RwTryReadLock(t)
        \/ RwTryWriteLock(t)
        \/ RwTryConvert(t)
        \/ \E op \in {"read_lock", "write_lock", "convert_read_lock_to_write_lock"} :
              RwBlockingCall(t, op)
        \/ RwReadLockAttempt(t)
        \/ RwWriteLockAttempt(t)
        \/ RwConvertAttempt(t)
        \/ RwReadUnlock(t)
        \/ RwWriteUnlock(t)
        \/ RwConvertDown(t)

SpecRW == InitRW /\ [][NextRW]_vars

\* Every thread is scheduled again and again: a thread inside a blocking
\* call makes its next attempt, and a thread that holds a lock releases it.
FairSpecRW ==
    /\ SpecRW
    /\ \A t \in RwThreads :
          /\ WF_vars(RwReadLockAttempt(t))
          /\ WF_vars(RwWriteLockAttempt(t))
          /\ WF_vars(RwConvertAttempt(t))
          /\ WF_vars(RwReadUnlock(t))
          /\ WF_vars(RwWriteUnlock(t))

InitCV ==
    /\ CvInit
    /\ MutexIdle /\ FairIdle /\ DqIdle /\ DqSeqIdle /\ DqConcIdle /\ PoolIdle /\ GrowIdle /\ ScriptIdle /\ DqCallsIdle /\ RwIdle /\ CtorIdle /\ AffIdle /\ RangeIdle /\ WaiterIdle /\ AttrIdle /\ InstIdle

NextCV ==
    \E t \in CvThreads :
        \/ CvSignal(t)
        \/ CvWait(t)
        \/ CvResume(t)

SpecCV == InitCV /\ [][NextCV]_vars

InitFair ==
    /\ FairInit
    /\ MutexIdle /\ CvIdle /\ CvTestIdle /\ DqIdle /\ DqSeqIdle /\ DqConcIdle /\ PoolIdle /\ GrowIdle /\ ScriptIdle /\ DqCallsIdle /\ RwIdle /\ CtorIdle /\ AffIdle /\ RangeIdle /\ WaiterIdle /\ AttrIdle /\ InstIdle

NextFair ==
    \E t \in FairThreads :
        \/ FairLock(t)
        \/ FairSpinEnd(t)
        \/ FairUnlock(t)
        \/ FairGrant(t)
        \/ FairTryLock(t)

SpecFair == InitFair /\ [][NextFair]_vars

\* Every thread is scheduled again and again: a thread whose flag is set
\* leaves its spin loop, a thread that holds the mutex calls unlock(), and
\* an unlock() past its critical section sets the flag it fetched.
FairSpecFair ==
    /\ SpecFair
    /\ \A t \in FairThreads :
          WF_vars(FairSpinEnd(t)) /\ WF_vars(FairUnlock(t)) /\ WF_vars(FairGrant(t))

InitDQ ==
    /\ DqInit
    /\ MutexIdle /\ CvTestIdle /\ FairIdle /\ DqConcIdle /\ PoolIdle /\ GrowIdle /\ ScriptIdle /\ DqCallsIdle /\ RwIdle /\ CtorIdle /\ AffIdle /\ RangeIdle /\ WaiterIdle /\ AttrIdle /\ InstIdle

NextDQ ==
    \/ \E v \in Values : SeqPushFront(v)
    \/ \E v \in Values : SeqPushBack(v)
    \/ SeqPopFront
    \/ SeqPopBack

SpecDQ == InitDQ /\ [][NextDQ]_vars

InitDQCalls ==
    /\ DqCallsInit
    /\ MutexIdle /\ CvTestIdle /\ FairIdle /\ DqSeqIdle /\ DqConcIdle /\ PoolIdle /\ GrowIdle /\ ScriptIdle /\ RwIdle /\ CtorIdle /\ AffIdle /\ RangeIdle /\ WaiterIdle /\ AttrIdle /\ InstIdle

NextDQCalls ==
    \/ \E v \in Values : CallPushFront(v)
    \/ \E v \in Values : CallPushBack(v)
    \/ \E wait \in BOOLEAN : CallPopFront(wait)
    \/ \E wait \in BOOLEAN : CallPopBack(wait)

SpecDQCalls == InitDQCalls /\ [][NextDQCalls]_vars

InitDQC ==
    /\ DqcInit
    /\ MutexIdle /\ CvTestIdle /\ FairIdle /\ DqSeqIdle /\ PoolIdle /\ GrowIdle /\ ScriptIdle /\ DqCallsIdle /\ RwIdle /\ CtorIdle /\ AffIdle /\ RangeIdle /\ WaiterIdle /\ AttrIdle /\ InstIdle

NextDQC ==
    \E t \in DqThreads :
        \/ \E v \in Values : DqcPushFront(t, v)
        \/ \E v \in Values : DqcPushBack(t, v)
        \/ \E wait \in BOOLEAN : DqcPopFront(t, wait)
        \/ \E wait \in BOOLEAN : DqcPopBack(t, wait)
        \/ DqcResume(t)

SpecDQC == InitDQC /\ [][NextDQC]_vars

\* A thread spinning in wait() is scheduled: once its flag is set it goes
\* on.  Which calls the threads make is their choice.
FairSpecDQC ==
    /\ SpecDQC
    /\ \A t \in DqThreads : WF_vars(DqcResume(t))

InitScript ==
    /\ ScriptInit
    /\ MutexIdle /\ CvTestIdle /\ FairIdle /\ DqSeqIdle /\ DqConcIdle /\ PoolIdle /\ GrowIdle /\ DqCallsIdle /\ RwIdle /\ CtorIdle /\ AffIdle /\ RangeIdle /\ WaiterIdle /\ AttrIdle /\ InstIdle

NextScript ==
    \/ ScriptPrePush
    \/ ScriptPrePop
    \/ ScriptPush
    \/ ScriptPop

SpecScript == InitScript /\ [][NextScript]_vars

InitGrow ==
    /\ GrowInit
    /\ MutexIdle /\ CvIdle /\ CvTestIdle /\ FairIdle /\ DqIdle /\ DqSeqIdle /\ DqConcIdle /\ PoolIdle /\ ScriptIdle /\ DqCallsIdle /\ RwIdle /\ CtorIdle /\ AffIdle /\ RangeIdle /\ WaiterIdle /\ AttrIdle /\ InstIdle

NextGrow == GrowFull

SpecGrow == InitGrow /\ [][NextGrow]_vars

InitPool ==
    /\ PoolInit
    /\ MutexIdle /\ CvTestIdle /\ FairIdle /\ DqSeqIdle /\ DqConcIdle /\ GrowIdle /\ ScriptIdle /\ DqCallsIdle /\ RwIdle /\ CtorIdle /\ AffIdle /\ RangeIdle /\ WaiterIdle /\ AttrIdle /\ InstIdle

WorkerNext(w) ==
    \/ WorkerCheck(w)
    \/ WorkerPop(w)
    \/ WorkerResume(w)
    \/ WorkerRun(w)
    \/ WorkerDelete(w)
    \/ WorkerExit(w)

MainEndNext ==
    \/ MainEndPush
    \/ MainEndLoopDone
    \/ MainEndReturn

MainTaskNext ==
    \/ MainRun
    \/ MainDelete

NextPool ==
    \/ \E high \in BOOLEAN : MainAdd(high)
    \/ MainRunTask
    \/ MainTaskNext
    \/ MainEndBegin
    \/ MainEndNext
    \/ \E w \in Workers : WorkerNext(w)

SpecPool == InitPool /\ [][NextPool]_vars

\* The pool threads and the main thread inside end() or inside run_task()
\* are scheduled fairly; whether the main thread submits, runs a task or
\* calls end() is its choice.
FairSpecPool ==
    /\ SpecPool
    /\ \A w \in Workers : WF_vars(WorkerNext(w))
    /\ WF_vars(MainEndNext)
    /\ WF_vars(MainTaskNext)

InitCtor ==
    /\ CtorInit
    /\ CvIdle /\ CvTestIdle /\ DqCallsIdle /\ DqConcIdle /\ DqIdle /\ DqSeqIdle /\ FairIdle /\ GrowIdle /\ MutexIdle /\ PoolIdle /\ RwIdle /\ ScriptIdle /\ AffIdle /\ RangeIdle /\ WaiterIdle /\ AttrIdle /\ InstIdle

NextCtor ==
    \/ CtorThreadPool
    \/ CtorEndCall
    \/ CtorEndAdd
    \/ CtorEndLoopDone
    \/ CtorThreadExit
    \/ CtorEndReturn

SpecCtor == InitCtor /\ [][NextCtor]_vars

InitAff ==
    /\ AffInit
    /\ CtorIdle /\ CvIdle /\ CvTestIdle /\ DqCallsIdle /\ DqConcIdle /\ DqIdle /\ DqSeqIdle /\ FairIdle /\ GrowIdle /\ MutexIdle /\ PoolIdle /\ RwIdle /\ ScriptIdle /\ RangeIdle /\ WaiterIdle /\ AttrIdle /\ InstIdle

NextAff ==
    \/ SetAffinityPattern(abindarg, acpu)
    \/ \E logical_id \in 0..2, ind \in (0 - 1)..MaxInd : SetAffinity(logical_id, ind)

SpecAff == InitAff /\ [][NextAff]_vars

InitRange ==
    /\ RangeInit
    /\ AffIdle /\ CtorIdle /\ CvIdle /\ CvTestIdle /\ DqCallsIdle /\ DqConcIdle /\ DqIdle /\ DqSeqIdle /\ FairIdle /\ GrowIdle /\ MutexIdle /\ PoolIdle /\ RwIdle /\ ScriptIdle /\ WaiterIdle /\ AttrIdle /\ InstIdle

NextRange ==
    \/ RangeConstruct
    \/ RangeBisect

SpecRange == InitRange /\ [][NextRange]_vars

InitWaiter ==
    /\ WaiterInit
    /\ AffIdle /\ CtorIdle /\ CvIdle /\ CvTestIdle /\ DqCallsIdle /\ DqConcIdle /\ DqIdle /\ DqSeqIdle /\ FairIdle /\ GrowIdle /\ MutexIdle /\ PoolIdle /\ RangeIdle /\ RwIdle /\ ScriptIdle /\ AttrIdle /\ InstIdle

NextWaiter ==
    \/ WaiterWait
    \/ WaiterReset

SpecWaiter == InitWaiter /\ [][NextWaiter]_vars

InitAttr ==
    /\ AttrInit
    /\ AffIdle /\ CtorIdle /\ CvIdle /\ CvTestIdle /\ DqCallsIdle /\ DqConcIdle /\ DqIdle /\ DqSeqIdle /\ FairIdle /\ GrowIdle /\ MutexIdle /\ PoolIdle /\ RangeIdle /\ RwIdle /\ ScriptIdle /\ WaiterIdle /\ InstIdle

NextAttr ==
    \/ \E b \in BOOLEAN : AttrSetGenerator(b)
    \/ \E b \in BOOLEAN : AttrSetStealable(b)
    \/ \E b \in BOOLEAN : AttrSetHighpriority(b)
    \/ \E loads \in BOOLEAN, value \in FlagValues : AttrSerialize(loads, value)

SpecAttr == InitAttr /\ [][NextAttr]_vars

InitInst ==
    /\ InstInit
    /\ AffIdle /\ AttrIdle /\ CtorIdle /\ CvIdle /\ CvTestIdle /\ DqCallsIdle /\ DqConcIdle /\ DqIdle /\ DqSeqIdle /\ FairIdle /\ GrowIdle /\ MutexIdle /\ PoolIdle /\ RangeIdle /\ RwIdle /\ ScriptIdle /\ WaiterIdle

NextInst ==
    \/ \E call \in InstCalls : \E arg \in InstArgs(call) : InstCall(call, arg)
    \/ InstStart
    \/ InstBuilt
    \/ \E w \in InstWorkers : InstWorkerMain(w)

SpecInst == InitInst /\ [][NextInst]_vars

\* ================================================================== claims

\* C1: for the basic Mutex, in both the atomic-counter and the pthread
\* variant and under every interleaving of lock(), try_lock() and unlock(),
\* at most one thread is inside the critical section.
MutualExclusion == Cardinality({t \in MutexThreads : mpc[t] = "cs"}) <= 1

\* One thread holds the Mutex while another is inside lock() or try_lock().
MutexContended ==
    \E t, u \in MutexThreads :
        /\ mpc[t] = "cs"
        /\ mpc[u] \in {"locking", "undo_lock", "undo_try"}

\* C2: on a DQueue of any initial capacity >= 2, every pop_front(false) and
\* pop_back(false) returns what the same call returns on the abstract
\* sequence (ok = false iff the sequence is empty, else its first or last
\* element), and size() is the length of that sequence; wrapped indices and
\* grow() included.
DequeRefinesSequence ==
    /\ dqres.ok = dqres.mok
    /\ dqres.ok => dqres.val = dqres.mval
    /\ size(dq) = Len(model)

\* A pop took an element out of a deque that has grown and still holds
\* elements pushed at both ends.
DequePoppedAfterGrow ==
    /\ dq.stats.ngrow = 1
    /\ dqres.ok
    /\ dq.stats.npush_front > 0
    /\ dq.stats.npush_back > 0
    /\ Len(model) >= 2

\* C3: whenever pop_front(true) or pop_back(true) returns, it returns
\* ok = true, whatever pushes, blocking pops and non-blocking pops the other
\* threads perform.
BlockingPopReturnsElement ==
    \A t \in DOMAIN dres : dres[t].wait => dres[t].ok

\* C4: when end() returns, every task submitted before it has been run
\* exactly once.
AllTasksRunWhenEndReturns ==
    mainpc = "ended" => \A k \in DOMAIN hp : runs[k] = 1

\* C5: under fair scheduling end() eventually returns, and when it has
\* returned nfinished equals the number of pool threads and every pool
\* thread has left its loop.
EndReturns ==
    /\ finish ~> (mainpc = "ended")
    /\ [](mainpc = "ended" => (nfinished = NWorkers /\ \A w \in Workers : wpc[w] = "done"))

\* end() has returned after MaxTasks tasks were submitted.
EndReturned ==
    /\ mainpc = "ended"
    /\ Len(hp) = MaxTasks
    /\ \A w \in Workers : wpc[w] = "done"

\* C6: a pop_front by a pool thread or by run_task() takes a task that is
\* not high priority only when no high-priority task is in the queue: a
\* high-priority task is dequeued before every other task that was queued
\* when it was submitted.
HighPriorityFirst ==
    [][dq'.n < dq.n =>
         \/ is_high_priority(popped')
         \/ \A k \in 1..dq.n : ~is_high_priority(DQSeq(dq)[k])]_vars

\* A high-priority task was dequeued while a task submitted before it, not
\* high priority, is still in the queue.
HighPriorityOvertook ==
    /\ is_high_priority(popped)
    /\ \E k \in 1..dq.n :
          /\ DQSeq(dq)[k] \in UserTasks
          /\ DQSeq(dq)[k] < popped
          /\ ~is_high_priority(DQSeq(dq)[k])

\* C7: a MutexFair is granted in the order in which the waiters enqueued in
\* lock(): unlock() sets the flag of the earliest enqueued waiter only, and
\* no thread acquires through try_lock() or through the n == 1 path of
\* lock() while a waiter is enqueued.
FairOrder ==
    [][/\ \A t \in FairThreads :
             (~mfturn[t] /\ mfturn'[t]) => (mfpend # <<>> /\ Head(mfpend) = t)
       /\ \A t \in FairThreads :
             (mfpc[t] = "idle" /\ mfpc'[t] = "held") => mfpend = <<>>]_vars

\* A waiter has been granted the MutexFair while a later waiter is enqueued.
FairGrantedWithWaiterBehind ==
    \E t \in FairThreads :
        /\ mfpc[t] = "spin"
        /\ mfturn[t]
        /\ mfpend # <<>>

\* C8: a signal() issued while k >= 1 threads are blocked in wait() and no
\* signal is pending releases exactly one waiter, the one that enqueued
\* earliest.
SignalReleasesEarliest ==
    [][(cvop'.op = "signal" /\ cv.nsig = 0 /\ CvBlocked # {}) =>
          Released(myturn, myturn') = {Head(cvpend)}]_vars

\* C9: signals issued while no thread waits accumulate in nsig; a wait()
\* that finds nsig > 0 returns without blocking and consumes one signal; a
\* wait() that finds nsig = 0 blocks, and only a signal() releases it.
SignalsAccumulate ==
    [][/\ (cvop'.op = "signal" /\ cvpend = <<>>) =>
             (cv'.nsig = cv.nsig + 1 /\ Released(myturn, myturn') = {})
       /\ (cvop'.op = "wait" /\ cv.nsig > 0 /\ cvpend = <<>>) =>
             (cvop'.imm /\ cv'.nsig = cv.nsig - 1 /\ cvpc'[cvop'.t] = "idle")
       /\ (cvop'.op = "wait" /\ cv.nsig = 0) =>
             (~cvop'.imm /\ cvpc'[cvop'.t] = "spin" /\ ~myturn'[cvop'.t])
       /\ Released(myturn, myturn') # {} => cvop'.op = "signal"]_vars

\* A wait() returned at once, consuming one of MaxSig accumulated signals.
WaitConsumedSignal ==
    /\ cvop.op = "wait"
    /\ cvop.imm
    /\ cv.nsig = MaxSig - 1

\* C10: with k <= MAX_NTHREAD threads blocked in wait() and no signal
\* pending, every signal() releases one of them: it leaves k - 1 blocked
\* and no signal pending.
SignalReleasesOneOfUpToCapacity ==
    [][(cvop'.op = "signal" /\ cv.nsig = 0 /\ CvBlocked # {}
            /\ Cardinality(CvBlocked) <= CV_MAX_NTHREAD) =>
          (Cardinality(CvBlocked') = Cardinality(CvBlocked) - 1 /\ cv'.nsig = 0)]_vars

\* C11: a push that finds n == sz runs grow() before the insert; grow()
\* keeps the n elements in their front-to-back order and sets
\* front = new_sz/2 - old_sz/2 and back = front + n - 1 < new_sz, wherever
\* front was in the old buffer; the insert then goes into the grown buffer.
GrowPreservesOrder ==
    (dqlast.op \in {"push_front", "push_back"} /\ dqlast.before.n = dqlast.before.sz) =>
        LET b  == dqlast.before
            g  == grow(b)
            lo == growSize(b.sz) \div 2 - b.sz \div 2
        IN  /\ g.n = b.n
            /\ DQSeq(g) = DQSeq(b)
            /\ g.front = lo
            /\ g.back = g.front + b.n - 1
            /\ g.back < g.sz
            /\ dq.stats.ngrow = b.stats.ngrow + 1
            /\ dq.sz = g.sz
            /\ dq.n = b.n + 1
            /\ DQSeq(dq) = IF dqlast.op = "push_front"
                           THEN <<dqlast.val>> \o DQSeq(b)
                           ELSE Append(DQSeq(b), dqlast.val)

\* A push has grown a full buffer whose contents were wrapped (front > 0,
\* back < front) and held different values.
GrewWrappedBuffer ==
    /\ dqlast.op \in {"push_front", "push_back"}
    /\ dqlast.before.n = dqlast.before.sz
    /\ dqlast.before.front > 0
    /\ dqlast.before.back < dqlast.before.front
    /\ DQSeq(dqlast.before)[1] # DQSeq(dqlast.before)[dqlast.before.n]
    /\ dq.stats.ngrow = 1

\* C12: growing a full deque of capacity 2, 32767, 32768, 1048576 and
\* 1048577 yields the capacities 65536, 65536, 65536, 2097152 and
\* 1048577 + 1048576 = 2097153.
GrowSizes ==
    gngrow > 0 =>
        /\ goldsz = 2 => gsz = 65536
        /\ goldsz = 32767 => gsz = 65536
        /\ goldsz = 32768 => gsz = 65536
        /\ goldsz = 1048576 => gsz = 2097152
        /\ goldsz = 1048577 => gsz = 2097153

\* The same with 2097152 + 1048576 as the capacity grown from 1048577.
GrowSizesAsStated ==
    gngrow > 0 =>
        /\ goldsz = 2 => gsz = 65536
        /\ goldsz = 32767 => gsz = 65536
        /\ goldsz = 32768 => gsz = 65536
        /\ goldsz = 1048576 => gsz = 2097152
        /\ goldsz = 1048577 => gsz = 2097152 + 1048576

\* A deque constructed with capacity 1048577 has grown once.
GrewFrom1048577 ==
    /\ gngrow = 1
    /\ goldsz = 1048577

\* The pairs (v, true) for the values v of vals.
Got(vals) == [i \in 1..Len(vals) |-> [val |-> vals[i], ok |-> TRUE]]

\* C13: on an empty deque, push_back(1); push_back(2); push_front(3);
\* push_front(4) followed by four pop_back calls returns 2, 1, 3, 4 in that
\* order, and followed by four pop_front calls returns 4, 3, 1, 2.
ScriptPops ==
    spc = 8 =>
        sout = IF smode = "pop_back" THEN Got(<<2, 1, 3, 4>>) ELSE Got(<<4, 3, 1, 2>>)

\* The same with 1, 2, 3, 4 as the values returned by the four pop_back calls.
ScriptPopsAsStated ==
    spc = 8 =>
        sout = IF smode = "pop_back" THEN Got(<<1, 2, 3, 4>>) ELSE Got(<<4, 3, 1, 2>>)

\* The script has ended with its four pop_back() calls (wait = true) on a
\* deque whose front and back had moved on and whose buffer grew during the
\* pushes.
ScriptDoneWithPopBack ==
    /\ spc = 8
    /\ smode = "pop_back"
    /\ swait
    /\ srot > 0
    /\ dq.stats.ngrow = 1

\* C14: with no concurrent operation, push_front(x) immediately followed by
\* pop_front returns (x, true) and leaves n and the contents as they were
\* before the push, and so does push_back(x) followed by pop_back; whether
\* the deque was empty, partly filled, wrapped or full (the push grew it).
PushThenPop ==
    /\ (dqprev.op = "push_front" /\ dqlast.op = "pop_front") =>
           /\ dqlast.ret
           /\ dqlast.rok
           /\ dqlast.rval = dqprev.val
           /\ dq.n = dqprev.before.n
           /\ DQSeq(dq) = DQSeq(dqprev.before)
    /\ (dqprev.op = "push_back" /\ dqlast.op = "pop_back") =>
           /\ dqlast.ret
           /\ dqlast.rok
           /\ dqlast.rval = dqprev.val
           /\ dq.n = dqprev.before.n
           /\ DQSeq(dq) = DQSeq(dqprev.before)

\* push_back(x) on a full, wrapped deque was followed by pop_back() with
\* wait = true.
PoppedBackAfterGrowingPush ==
    /\ dqprev.op = "push_back"
    /\ dqlast.op = "pop_back"
    /\ dqlast.wait
    /\ dqlast.ret
    /\ dqprev.before.n = dqprev.before.sz
    /\ dqprev.before.back < dqprev.before.front

\* C15: pop_front(false) and pop_back(false) on an empty deque return
\* without blocking, return ok = false with the default value of T (0), and
\* leave n, front, back, the buffer and the pending-signal count as they
\* were.
EmptyPopReturnsDefault ==
    (dqlast.op \in {"pop_front", "pop_back"} /\ ~dqlast.wait /\ dqlast.before.n = 0) =>
        /\ dqlast.ret
        /\ ~dqblocked
        /\ ~dqlast.rok
        /\ dqlast.rval = 0
        /\ dq.n = dqlast.before.n
        /\ dq.front = dqlast.before.front
        /\ dq.back = dqlast.before.back
        /\ dq.buf = dqlast.before.buf
        /\ dq.sz = dqlast.before.sz
        /\ cv.nsig = dqlast.nsig

\* C16: in every state reachable through the pushes, the pops and grow():
\* n <= sz, 0 <= front < sz, 0 <= back < sz, (back - front + 1) mod sz =
\* n mod sz, n = 0 implies front = (back + 1) mod sz, and sanity_check()
\* would not throw, nor does the one that ends grow().
DequeIndicesSane ==
    /\ dq.n <= dq.sz
    /\ 0 <= dq.front /\ dq.front < dq.sz
    /\ 0 <= dq.back /\ dq.back < dq.sz
    /\ (dq.back - dq.front + 1 + dq.sz) % dq.sz = dq.n % dq.sz
    /\ dq.n = 0 => dq.front = (dq.back + 1) % dq.sz
    /\ sanityOK(dq)
    /\ ~pushThrows(dq)

\* The deque has grown and has been emptied again by pops at both ends.
DequeEmptiedAfterGrow ==
    /\ dq.stats.ngrow = 1
    /\ dq.n = 0
    /\ dq.stats.npop_front > 0
    /\ dq.stats.npop_back > 0

\* Threads holding a lock of the given kind according to held.
Holding(held, kind) == {t \in DOMAIN held : held[t] = kind}

\* C17: under every interleaving of the try and blocking read and write
\* locks, the unlocks and the two conversions by threads that release or
\* convert only what they hold: nreader >= 0, writeflag implies
\* nreader = 0, nreader is the number of threads holding a read lock, and
\* writeflag is true iff exactly one thread holds the write lock.
ReaderWriterInvariant ==
    /\ rw.nreader >= 0
    /\ rw.writeflag => rw.nreader = 0
    /\ rw.nreader = Cardinality(Holding(rwhold, "read"))
    /\ rw.writeflag <=> Cardinality(Holding(rwhold, "write")) = 1
    /\ Cardinality(Holding(rwhold, "write")) <= 1

\* A thread holds the write lock it got by converting its read lock, while
\* the other threads are inside read_lock() and write_lock().
WriterByConversionWithWaiters ==
    /\ rwlast.op \in {"try_convert_read_lock_to_write_lock", "convert_read_lock_to_write_lock"}
    /\ rwlast.ret
    /\ rwhold[rwlast.t] = "write"
    /\ \E u, v \in RwThreads : rwpc[u] = "read_lock" /\ rwpc[v] = "write_lock"

\* C18: try_read_lock returns true iff writeflag is false at the call and
\* then adds one to nreader; try_write_lock returns true iff writeflag is
\* false and nreader = 0 and then sets writeflag; a try returning false
\* changes nothing.  So try_write_lock fails while any reader (or a writer)
\* holds its lock and succeeds once none does.
TryLockResults ==
    /\ rwlast.op = "try_read_lock" =>
           /\ rwlast.ret <=> ~rwlast.before.writeflag
           /\ rw = IF rwlast.ret
                    THEN [rwlast.before EXCEPT !.nreader = rwlast.before.nreader + 1]
                    ELSE rwlast.before
    /\ rwlast.op = "try_write_lock" =>
           /\ rwlast.ret <=> (~rwlast.before.writeflag /\ rwlast.before.nreader = 0)
           /\ rw = IF rwlast.ret
                    THEN [rwlast.before EXCEPT !.writeflag = TRUE]
                    ELSE rwlast.before
           /\ rwlast.ret <=> (Holding(rwlast.held, "read") = {} /\ Holding(rwlast.held, "write") = {})

\* try_write_lock returned false while every other thread held a read lock.
TryWriteFailedAmongReaders ==
    /\ rwlast.op = "try_write_lock"
    /\ ~rwlast.ret
    /\ Holding(rwlast.held, "read") = RwThreads \ {rwlast.t}

\* C19: try_convert_read_lock_to_write_lock by a thread holding a read lock
\* succeeds iff the caller is the only reader and there is no writer, and
\* then moves (nreader = 1, writeflag = false) to (nreader = 0, writeflag =
\* true); with two or more readers it fails and changes nothing.
TryConvertResults ==
    rwlast.op = "try_convert_read_lock_to_write_lock" =>
        /\ rwlast.ret <=> (Holding(rwlast.held, "read") = {rwlast.t}
                             /\ Holding(rwlast.held, "write") = {})
        /\ rwlast.ret => (rwlast.before = [nreader |-> 1, writeflag |-> FALSE]
                             /\ rw = [nreader |-> 0, writeflag |-> TRUE])
        /\ ~rwlast.ret => rw = rwlast.before
        /\ Cardinality(Holding(rwlast.held, "read")) >= 2 => ~rwlast.ret

\* A convert attempt failed while exactly two threads held read locks.
TryConvertFailedAmongTwoReaders ==
    /\ rwlast.op = "try_convert_read_lock_to_write_lock"
    /\ ~rwlast.ret
    /\ Cardinality(Holding(rwlast.held, "read")) = 2

\* C20: once two threads holding read locks are both inside
\* convert_read_lock_to_write_lock(), neither call ever returns, whatever
\* the other threads do: both stay inside the call in every later step.
ConvertersDeadlock ==
    [][\A t, u \in RwThreads :
          (t # u /\ rwpc[t] = "convert_read_lock_to_write_lock"
                 /\ rwpc[u] = "convert_read_lock_to_write_lock") =>
          (rwpc'[t] = "convert_read_lock_to_write_lock"
              /\ rwpc'[u] = "convert_read_lock_to_write_lock")]_vars

\* Two threads are inside convert_read_lock_to_write_lock(), an iteration of
\* one of them has just failed, and the remaining thread holds a read lock.
TwoConvertersSpinning ==
    /\ Cardinality({t \in RwThreads : rwpc[t] = "convert_read_lock_to_write_lock"}) = 2
    /\ rwlast.op = "convert_read_lock_to_write_lock"
    /\ ~rwlast.ret
    /\ Holding(rwhold, "read") = RwThreads

\* Threads whose flag pointer is in the queue of the MutexFair: spinning in
\* lock() and not yet taken out of the queue by an unlock().
FairQueued ==
    {t \in FairThreads :
        /\ mfpc[t] = "spin"
        /\ ~mfturn[t]
        /\ \A u \in FairThreads : ~(mfpc[u] = "setflag" /\ mfp[u] = t)}

\* The slots of q between front (excluded) and back (included), in order.
FairSlots(m) ==
    [k \in 1..((m.back - m.front + MF_MAX_NTHREAD) % MF_MAX_NTHREAD) |->
        m.q[(m.front + k) % MF_MAX_NTHREAD]]

\* C21: a MutexFair has at most CAPACITY-1 waiters queued behind the holder;
\* a lock() made while fewer are queued does not fail, a lock() made while
\* CAPACITY-1 are queued throws and leaves n, front, back and q alone, and
\* the queue slots always hold the flags of exactly the queued threads, in
\* the order they enqueued: none is overwritten.
FairCapacity ==
    [][/\ Cardinality(FairQueued) <= MF_MAX_NTHREAD - 1
       /\ FairQueued = {FairSlots(mf)[k] : k \in 1..Len(FairSlots(mf))}
       /\ Len(FairSlots(mf)) = Cardinality(FairQueued)
       /\ \A t \in FairThreads :
             /\ (mfpc[t] = "idle" /\ mfpc'[t] = "threw") =>
                    (Cardinality(FairQueued) = MF_MAX_NTHREAD - 1 /\ mf' = mf)
             /\ (mfpc[t] = "idle" /\ mfpc'[t] = "spin") =>
                    (/\ Cardinality(FairQueued) < MF_MAX_NTHREAD - 1
                     /\ FairSlots(mf') = Append(FairSlots(mf), t))
             /\ (mfpc[t] = "idle" /\ mfpc'[t] # "idle"
                    /\ Cardinality(FairQueued) = MF_MAX_NTHREAD - 1) =>
                    mfpc'[t] = "threw"]_vars

\* A lock() has thrown while CAPACITY-1 threads are queued behind the holder.
FairLockRefused ==
    /\ \E t \in FairThreads : mfpc[t] = "threw"
    /\ \E t \in FairThreads : mfpc[t] = "held"
    /\ Cardinality(FairQueued) = MF_MAX_NTHREAD - 1

\* C22: whenever the internal mutex is free, n is the number of threads
\* holding the fair mutex plus the number of threads waiting in lock(); the
\* number of queued flag pointers, (back - front) mod CAPACITY, is n - 1
\* when n >= 1, and front = back when n = 0.
FairCount ==
    ~mflocked =>
        /\ mf.n = Cardinality({t \in FairThreads : mfpc[t] \in {"held", "spin"}})
        /\ mf.n >= 1 => (mf.back - mf.front + MF_MAX_NTHREAD) % MF_MAX_NTHREAD = mf.n - 1
        /\ mf.n = 0 => mf.front = mf.back

\* A thread that got the mutex through try_lock() holds it with waiters
\* queued behind it and the queue indices wrapped.
FairTryHolderWithWaiters ==
    /\ ~mflocked
    /\ mf.n = MF_MAX_NTHREAD
    /\ mf.back < mf.front
    /\ \E t \in FairThreads : mfpc[t] = "held" /\ t \notin {mf.q[i] : i \in DOMAIN mf.q}

\* What run_task() does with the tasks, in every state: pop_front hands a
\* task to at most one thread, which runs it at most once and deletes it at
\* most once, after run(); a task some thread holds is no longer queued and
\* is held by that thread only, and a task whose run_task() call is over
\* has been run and deleted once.
TaskHandling ==
    \A k \in UserTasks \cup NullTasks :
        /\ npopped[k] <= 1
        /\ runs[k] <= npopped[k]
        /\ ndeleted[k] <= runs[k]
        /\ Cardinality({w \in Workers : wtask[w] = k}) + (IF mtask = k THEN 1 ELSE 0) <= 1
        /\ \A w \in Workers :
              wtask[w] = k =>
                /\ npopped[k] = 1 /\ ndeleted[k] = 0
                /\ k \notin {DQSeq(dq)[i] : i \in 1..Len(DQSeq(dq))}
                /\ runs[k] = (IF wpc[w] = "delete" THEN 1 ELSE 0)
        /\ mtask = k =>
              /\ npopped[k] = 1 /\ ndeleted[k] = 0
              /\ k \notin {DQSeq(dq)[i] : i \in 1..Len(DQSeq(dq))}
              /\ runs[k] = (IF mainpc = "task_delete" THEN 1 ELSE 0)
        /\ (npopped[k] = 1 /\ mtask # k /\ \A w \in Workers : wtask[w] # k) =>
              (runs[k] = 1 /\ ndeleted[k] = 1)

\* C23: under every interleaving of the pool threads and of calls of the
\* non-blocking run_task(), each submitted task is popped by at most one
\* thread, run at most once and only by the thread that popped it, and
\* destroyed exactly once, after its run() returned: once end() has
\* returned every submitted task has been destroyed once.
TaskDestroyedExactlyOnce ==
    /\ TaskHandling
    /\ mainpc = "ended" => \A k \in 1..Len(hp) : ndeleted[k] = 1

\* A value of POOL_NTHREAD that is a decimal integer: white space, an
\* optional sign, digits, and nothing else.
Numeric(s) ==
    LET t  == SkipSpace(s)
        u  == IF t # << >> /\ Head(t) = "-" THEN Tail(t) ELSE t
    IN  u # << >> /\ Digits(u) = u

\* C24: when the thread count is taken from POOL_NTHREAD and its value is
\* not numeric or is negative, the construction of the pool fails before
\* any pool thread is started; a constructed pool never has a negative
\* number of threads.
PoolNthreadValidated ==
    /\ (cpc # "new" /\ carg < 0 /\ cenv.set
            /\ (~Numeric(cenv.s) \/ sscanf_d(cenv.s).val < 0)) =>
         (cpc = "threw" /\ cstarted = 0)
    /\ cpc \in {"built", "adding", "ending", "ended"} => cnthreads >= 0

\* C25: when the pattern binds the pool threads, set_affinity(2, i) pins
\* the calling thread to the single processor cpulo[2] + (i mod width),
\* width being cpuhi[2] - cpulo[2] + 1.
AffinityPinsWorker ==
    (apc = "set" /\ abind[2] /\ acall.id = 2 /\ acall.ind >= 0) =>
        amask = {cpulo[2] + (acall.ind % (cpuhi[2] - cpulo[2] + 1))}

\* C26: after set_affinity_pattern(bind, cpu) has returned, whatever the
\* flags and the cpu numbers passed, 0 <= cpulo[i] <= cpuhi[i] < ncpu for
\* each of the three logical ids.
AffinityPatternSane ==
    apc = "set" =>
        \A i \in LogicalIds : 0 <= cpulo[i] /\ cpulo[i] <= cpuhi[i] /\ cpuhi[i] < ancpu

\* set_affinity_pattern has returned after a call that passed a negative
\* cpu for a bound id, a cpu past the last processor for a floating id and
\* an in-range cpu for the pool threads.
AffinityPatternClamped ==
    /\ apc = "set"
    /\ abind[0] /\ acpu[0] < 0
    /\ ~abind[1] /\ acpu[1] >= ancpu
    /\ abind[2] /\ acpu[2] = 1 /\ ancpu = MaxNcpu

\* C27: Range(src, Split) with src.size() > chunk gives a new range of
\* floor(n_src / 2) items beginning at the old begin of src and ending at
\* its new begin, with the chunk of src; src keeps the other items, so that
\* each bisection shrinks it.
RangeSplitHalves ==
    (rnsplit > 0 /\ rprev.n > rprev.chunksize /\ rprev.chunksize >= 1) =>
        /\ rnew.n = rprev.n \div 2
        /\ rnew.start = rprev.start
        /\ rnew.finish = rprev.start + (rprev.n \div 2)
        /\ rnew.chunksize = rprev.chunksize
        /\ rg.start = rnew.finish /\ rg.finish = rprev.finish
        /\ rg.n = rprev.n - (rprev.n \div 2)
        /\ rg.n < rprev.n

\* C28: a Range made with chunk = auto (-1) stores
\* max(1, n / (10 * pool_size)) as its chunk, one made with an explicit
\* chunk below 1 stores 1.
RangeChunk ==
    (rpc = "built" /\ rpsize >= 1) =>
        rg.chunksize = chunkParam(rchunk, rlen, rpsize)

\* C29: of the calls of wait() made on a fresh or reset MutexWaiter, exactly
\* the first nspin return without sleeping, exactly the next NapCalls sleep
\* naptime, and every later one sleeps sleeptime, however many follow.
WaiterTiers ==
    wcalls >= 1 =>
        wus = (IF wcalls <= nspin THEN 0
               ELSE IF wcalls <= nspin + NapCalls THEN naptime
               ELSE sleeptime)

\* The three flags of a value of TaskAttributes::flags.
Flags(flags) == <<is_generator(flags), is_stealable(flags), is_high_priority_flag(flags)>>

\* C30: a default TaskAttributes has its three flags false; after set_f(b)
\* is_f() is b and the two other flags are what they were; calling set_f(b)
\* again changes nothing.  From each of the 8 states of the flags.
AttrSetters ==
    /\ (tctor = "default" /\ tlast = NoSet) => Flags(tflags) = <<FALSE, FALSE, FALSE>>
    /\ tlast.op = "set_generator" =>
          /\ Flags(tflags) = [Flags(tlast.before) EXCEPT ![1] = tlast.b]
          /\ set_generator(tflags, tlast.b) = tflags
    /\ tlast.op = "set_stealable" =>
          /\ Flags(tflags) = [Flags(tlast.before) EXCEPT ![2] = tlast.b]
          /\ set_stealable(tflags, tlast.b) = tflags
    /\ tlast.op = "set_highpriority" =>
          /\ Flags(tflags) = [Flags(tlast.before) EXCEPT ![3] = tlast.b]
          /\ set_highpriority(tflags, tlast.b) = tflags

\* set_stealable(false) was called with the three flags set, after the
\* flags had been set one by one on a default TaskAttributes.
AttrClearedAmongSet ==
    /\ tctor = "default"
    /\ tlast.op = "set_stealable" /\ ~tlast.b
    /\ Flags(tlast.before) = <<TRUE, TRUE, TRUE>>
    /\ Flags(tflags) = <<TRUE, FALSE, TRUE>>

\* The six statistics of a deque, in a fixed order.
StatsOf(d) ==
    <<d.stats.nmax, d.stats.npush_front, d.stats.npush_back,
      d.stats.npop_front, d.stats.npop_back, d.stats.ngrow>>

\* 1 if b, else 0.
One(b) == IF b THEN 1 ELSE 0

\* C31: no call of the deque decreases any of its six statistics; nmax
\* follows the largest n reached, npush_front and npush_back grow by one
\* with each completed push at their end and with nothing else, and ngrow
\* grows by one exactly when the buffer is replaced.
StatsMonotone ==
    [][dq' # dq =>
         /\ \A i \in 1..6 : StatsOf(dq')[i] >= StatsOf(dq)[i]
         /\ dq.stats.nmax >= dq.n
         /\ dq'.stats.nmax = (IF dq'.n > dq.stats.nmax THEN dq'.n ELSE dq.stats.nmax)
         /\ dq'.stats.npush_front =
                dq.stats.npush_front + One(dqlast'.op = "push_front" /\ dqlast'.ret)
         /\ dq'.stats.npush_back =
                dq.stats.npush_back + One(dqlast'.op = "push_back" /\ dqlast'.ret)
         /\ dq'.stats.ngrow = dq.stats.ngrow + One(dq'.sz # dq.sz)]_vars

\* The buffer was replaced once, pushes were made at both ends and a pop
\* has brought n under its largest value.
StatsAfterGrowAndPop ==
    /\ dq.stats.ngrow = 1
    /\ dq.stats.npush_front > 0 /\ dq.stats.npush_back > 0
    /\ dq.stats.npop_front + dq.stats.npop_back > 0
    /\ dq.n < dq.stats.nmax

\* C40: n is the number of pushes less the number of pops counted:
\* n = npush_front + npush_back - npop_front - npop_back between calls.
CountersAccountForContents ==
    dq.n = Pushes(dq) - Pops(dq)

\* C40, as the code has it: the pop counters count the calls of pop_front
\* and pop_back, those that found the deque empty or are waiting included;
\* n changes by the pushes less the pops that returned an element, so that
\* n >= npush_front + npush_back - npop_front - npop_back.
CountersCountCalls ==
    [][dq' # dq =>
         /\ dq.n >= Pushes(dq) - Pops(dq)
         /\ dq'.stats.npop_front =
                dq.stats.npop_front + One(dqlast'.op = "pop_front")
         /\ dq'.stats.npop_back =
                dq.stats.npop_back + One(dqlast'.op = "pop_back")
         /\ dq'.n - dq.n =
                (Pushes(dq') - Pushes(dq)) - One(dqlast'.ret /\ dqlast'.rok)]_vars

\* A pop has returned without an element and was counted, a push followed:
\* the deque holds more than the counters account for.
PopCountedWithoutElement ==
    /\ dqprev.op \in {"pop_front", "pop_back"} /\ dqprev.ret /\ ~dqprev.rok
    /\ dqlast.op \in {"push_front", "push_back"}
    /\ dq.n > 0
    /\ dq.n > Pushes(dq) - Pops(dq)

\* C32: whatever begin(n), add, run_task, size and get_stats calls the
\* initial thread makes, at most one ThreadPool is constructed, each of its
\* threads is started once, every call that returns leaves size() at the
\* nthreads of that pool, a later begin(m) included, and every thread of
\* the pool gets that pool from instance(), during the constructor too.
OnePool ==
    /\ Len(ipools) <= 1
    /\ iptr \in {0, 1}
    /\ Len(ipools) = 1 =>
          /\ istarts <= ipools[1]
          /\ istarts = Cardinality({w \in InstWorkers : iwpc[w] # "none"})
          /\ (ipc = "idle" /\ ipools[1] >= 0) => istarts = ipools[1]
    /\ ilast.call # "none" => ilast.size = ipools[1]
    /\ \A w \in InstWorkers : iwpc[w] = "main" => iwsaw[w] = 1

\* A pool of two or more threads exists, one of them called instance()
\* while the constructor was starting the others, and a begin(m) with
\* another m has returned since.
SecondBeginIgnored ==
    /\ Len(ipools) = 1 /\ ipools[1] >= 2
    /\ ipc = "idle"
    /\ iwearly # {}
    /\ ilast.call = "begin" /\ ilast.arg >= 0 /\ ilast.arg # ipools[1]
    /\ ilast.size = ipools[1]

\* Thread t is inside pop_front(true) or pop_back(true), spinning in wait().
DqBlocked(t) == dpc[t] \in {"spin_front", "spin_back"}

\* C33: no wake-up is missed.  A push made while a popper waits with its
\* flag unset sets the flag of such a popper, and no popper stays blocked
\* for ever with an element staying in the deque.
NoMissedWakeup ==
    /\ [][(Pushes(dq') > Pushes(dq) /\ \E t \in DqThreads : DqBlocked(t) /\ ~myturn[t]) =>
            \E t \in DqThreads : DqBlocked(t) /\ ~myturn[t] /\ myturn'[t]]_vars
    /\ \A t \in DqThreads : ~<>[](DqBlocked(t) /\ dq.n > 0)

\* Two threads were spinning in pop_*(true) with their flags unset when a
\* third pushed; after a second push both have returned from the pop they
\* were blocked in, each with an element.
TwoBlockedPoppersWoken ==
    /\ dmaxw = CV_MAX_NTHREAD - 1
    /\ Cardinality({t \in DqThreads :
                       dres[t].blocked /\ dres[t].ok /\ ~DqBlocked(t)}) = 2
    /\ Pushes(dq) = 2 /\ Pops(dq) = 2 /\ dq.n = 0
    /\ cv.nsig = 0

\* C34: at most one thread at a time has returned from lock() or from a
\* successful try_lock() of a MutexFair without having called unlock();
\* try_lock() never enqueues a flag or spins, and it returns true exactly
\* when n == 0.
FairMutualExclusion ==
    /\ [](Cardinality({t \in FairThreads : mfpc[t] = "held"}) <= 1)
    /\ [][\A t \in FairThreads :
             /\ FairTryLock(t) =>
                    /\ mfpc'[t] \in {"idle", "held"}
                    /\ mfpc'[t] = "held" <=> mf.n = 0
                    /\ mf'.back = mf.back /\ mf'.q = mf.q /\ mfpend' = mfpend
             /\ (mfpc[t] = "idle" /\ mfpc'[t] = "held") => mf.n = 0]_vars

\* A thread holds the MutexFair after a hand-over by unlock(), a waiter is
\* queued behind it and a third thread is free to call try_lock().
FairHeldAfterHandover ==
    /\ ~mflocked
    /\ mf.front > 0
    /\ Cardinality({t \in FairThreads : mfpc[t] = "held"}) = 1
    /\ FairQueued # {}
    /\ \E t \in FairThreads : mfpc[t] = "idle"

\* C35: a lock() or unlock() of a MutexFair that throws leaves n, front,
\* back and q as they were before the call and the internal mutex
\* released.
FairThrowAbortsCleanly ==
    [][\A t \in FairThreads :
          (mfpc[t] # "threw" /\ mfpc'[t] = "threw") => (mf' = mf /\ ~mflocked')]_vars

\* C36: as long as no lock() is refused for want of a queue slot, every
\* thread that waits in lock() eventually returns from it holding the
\* MutexFair, and the flag that unlock() sets after releasing the internal
\* mutex is the flag of a thread still spinning in lock(), the one that
\* has waited longest.
FairLockReturns ==
    /\ [][\A t \in FairThreads :
             (mfpc[t] = "setflag" /\ mfpc'[t] = "idle") =>
                 /\ mfpc[mfp[t]] = "spin" /\ ~mfturn[mfp[t]]
                 /\ mfpend # <<>> /\ Head(mfpend) = mfp[t]]_vars
    /\ \A t \in FairThreads :
          (mfpc[t] = "spin") ~>
              (mfpc[t] = "held" \/ \E u \in FairThreads : mfpc[u] = "threw")

\* No lock() has been refused, two hand-overs have been made and the
\* second waiter holds the MutexFair alone.
FairSecondWaiterServed ==
    /\ \A t \in FairThreads : mfpc[t] # "threw"
    /\ mf.front = 2
    /\ mf.n = 1
    /\ \E t \in FairThreads : mfpc[t] = "held"

\* Every thread that enters write_lock() leaves it, provided that no thread
\* keeps a read lock for ever and no other thread takes the write lock.
\* FairSpecRW has behaviours that do not satisfy it: the readers overlap
\* and the writer spins for ever.
WriterEventuallyAcquires ==
    ((\A t \in RwThreads : []<>(rwhold[t] # "read")) /\ [](~rw.writeflag)) =>
        \A t \in RwThreads : (rwpc[t] = "write_lock") ~> (rwpc[t] # "write_lock")

\* C37: writers have no precedence.  In every state in which a thread is
\* inside write_lock() and nreader > 0, its attempt fails and changes
\* nothing, a thread holding no lock still gets a read lock, through
\* try_read_lock() or through read_lock(), and when two readers overlap,
\* either can release and leave nreader > 0 with the writer still inside
\* write_lock(): the readers can go on for ever, each holding only
\* finitely long.
WriterStarvable ==
    \A w \in RwThreads :
        (rwpc[w] = "write_lock" /\ rw.nreader > 0) =>
            /\ ~try_write_lock(rw).ret
            /\ ENABLED (RwWriteLockAttempt(w) /\ rwpc'[w] = "write_lock" /\ rw' = rw)
            /\ \A b \in RwThreads :
                  /\ (rwpc[b] = "idle" /\ rwhold[b] = "none") =>
                        /\ ENABLED (RwTryReadLock(b) /\ rwhold'[b] = "read"
                                        /\ rw'.nreader = rw.nreader + 1)
                        /\ ENABLED (RwBlockingCall(b, "read_lock") /\ rwpc'[b] = "read_lock")
                  /\ rwpc[b] = "read_lock" =>
                        ENABLED (RwReadLockAttempt(b) /\ rwhold'[b] = "read"
                                    /\ rw'.nreader = rw.nreader + 1)
                  /\ (rwpc[b] = "idle" /\ rwhold[b] = "read" /\ rw.nreader > 1) =>
                        ENABLED (RwReadUnlock(b) /\ rw'.nreader > 0
                                    /\ rwpc'[w] = "write_lock")

\* A thread inside write_lock() has just failed an attempt while two
\* readers hold their read locks.
WriterBlockedByOverlappingReaders ==
    \E w \in RwThreads :
        /\ rwpc[w] = "write_lock"
        /\ rwlast.op = "write_lock" /\ rwlast.t = w /\ ~rwlast.ret
        /\ rw.nreader = 2
        /\ Holding(rwhold, "read") = RwThreads \ {w}

\* C38: in every state in which the mutex of a ConditionVariable is free,
\* nsig >= 0, nsig > 0 implies front == back, and no thread is queued in
\* wait() with its flag unset while a signal is pending.
CvSignalsOrWaiters ==
    /\ cv.nsig >= 0
    /\ cv.nsig > 0 => cv.front = cv.back
    /\ ~(cv.nsig > 0 /\ CvBlocked # {})

\* C39: after r2 = Range(r, Split), r2.size() + r.size() is the size r had
\* before, r2 begins where r began and ends where r now begins, and the
\* size of each of the two ranges is the distance from its begin to its
\* end.
RangeSplitConserves ==
    rnsplit > 0 =>
        /\ rnew.n + rg.n = rprev.n
        /\ rnew.start = rprev.start
        /\ rnew.finish = rg.start
        /\ rnew.n = rnew.finish - rnew.start
        /\ rg.n = rg.finish - rg.start
        /\ rg.finish = rprev.finish

\* A range of more items than its chunksize, not beginning at position 0,
\* has been split off twice.
RangeSplitOfLargeRange ==
    /\ rnsplit = 2
    /\ rprev.start > 0
    /\ rprev.chunksize >= 1
    /\ rprev.n > 2 * rprev.chunksize

====
